---- MODULE Spec2Model ----
(***************************************************************************)
(* SPARC core: the barcode whitelist and the corrector with its            *)
(* one-mismatch index (sparc-core/src/barcode), the UMI deduplicator       *)
(* (sparc-core/src/umi), the extraction of barcode and UMI from read 1     *)
(* (sparc-core/src/protocols), and the gene counter / sparse count matrix  *)
(* with its reductions and its Matrix Market serialisation                 *)
(* (sparc-core/src/count/matrix.rs, re-read by                             *)
(* sparc-cli/src/commands/qc.rs).                                          *)
(*                                                                         *)
(* Further components: the Python binding of the counter                   *)
(* (sparc-py/src/matrix.rs), the paired FASTQ parser                       *)
(* (sparc-core/src/fastq/parser.rs), the record loops of the count and     *)
(* extract commands (sparc-cli/src/commands), and the QC metrics with      *)
(* the warnings of the report (sparc-core/src/qc/metrics.rs).  f64         *)
(* values of the QC metrics are kept as quotients of two integers and      *)
(* compared exactly.                                                       *)
(*                                                                         *)
(* Strings are sequences of one-character strings.  u32 / u64 / usize      *)
(* quantities that can reach 2^32 - 1 are kept as two base-2^16 limbs      *)
(* [hi, lo] (value = hi * 2^16 + lo), so that 32-bit wrap-around is        *)
(* computed at the width the program uses.                                 *)
(***************************************************************************)
EXTENDS Integers, Sequences, FiniteSets, TLC

(***************************************************************************)
(* Bounds of the model                                                     *)
(***************************************************************************)
\* length L of the whitelist barcodes
BarcodeLen == 3
\* largest number of whitelist entries
MaxWl == 2
\* largest number of add_count / increment calls before build
MaxCalls == 3
\* largest number of UMIs passed to the deduplicator
MaxUmis == 3
\* largest number of bytes of a whitelist file
MaxFileLen == 6
\* largest number of barcodes passed to Whitelist::from_vec
MaxVec == 3
\* largest number of bases of a read 1
MaxReadLen == 29
\* largest number of add_count / increment calls on one Python counter
MaxPyCalls == 3
\* largest number of builds of one Python counter
MaxBuilds == 2
\* largest number of items a FASTQ reader yields
MaxRecords == 3
\* largest number of items a command takes from its record stream
MaxStream == 3
\* largest number of cells passed to update_from_cells
MaxCells == 2

VARIABLES
  \* BarcodeCorrector / BarcodeMatcher
  whitelist,        \* Whitelist.barcodes
  max_distance,     \* BarcodeCorrector.max_distance
  mismatch_index,   \* BarcodeCorrector.mismatch_index
  query,            \* the barcode passed to the last match call
  result,           \* the BarcodeMatch it returned
  mstage            \* "new", "corrector", "matcher", then the call made:
                    \* "match_barcode", "match_exact"

matchVars ==
  <<whitelist, max_distance, mismatch_index, query, result, mstage>>

VARIABLES
  \* GeneCounter / CountMatrix
  counter,          \* the GeneCounter: barcode_index, gene_index, counts,
                    \* barcodes, genes
  cstage,           \* "counting", "panicked" (overflow check of a debug
                    \* build), "consumed" (build(self) took the counter)
  calls,            \* the add_count / increment calls made so far, in order
  matrix,           \* the CountMatrix at hand, once there is one
  origin,           \* how it was made: build, or from_dense and its data
  file,             \* the bytes write_mtx wrote
  parsed,           \* what the qc command read back from them
  barcodes_tsv,     \* the bytes write_barcodes wrote
  genes_tsv         \* the bytes write_genes wrote

countVars ==
  <<counter, cstage, calls, matrix, origin, file, parsed, barcodes_tsv,
    genes_tsv>>

VARIABLES
  \* UmiDeduplicator
  umis,             \* the slice of Umi passed to the deduplicator
  dedup_distance,   \* UmiDeduplicator.max_distance
  groups,           \* what deduplicate(&umis) returned
  exact_groups,     \* what deduplicate_exact(&umis) returned
  overflow_checks,  \* whether the build panics on integer overflow
  ustage            \* "new", then "dedup" once the deduplicator exists

umiVars ==
  <<umis, dedup_distance, groups, exact_groups, overflow_checks, ustage>>

VARIABLES
  \* Whitelist construction
  wl_file,          \* the bytes of the file a whitelist is loaded from
  wl_vec,           \* the vector passed to Whitelist::from_vec
  loaded            \* the Result<Whitelist> of the constructor called

wlVars == <<wl_file, wl_vec, loaded>>

VARIABLES
  \* Protocol
  protocol,         \* the TenX3Prime / TenX5Prime at hand
  read,             \* the seq and qual passed to extract_r1
  extracted         \* the Result<ReadComponents> it returned

protoVars == <<protocol, read, extracted>>

VARIABLES
  \* PyGeneCounter (sparc-py)
  py_inner,         \* PyGeneCounter.inner, a GeneCounter
  py_calls,         \* the add_count / increment calls made since the last
                    \* build, in order
  py_built,         \* the matrices build() handed out, in order
  py_observed       \* for each of them, the calls made before its build and
                    \* after the one before

pyVars == <<py_inner, py_calls, py_built, py_observed>>

VARIABLES
  \* PairedFastqParser
  r1_reader,        \* what the reader of R1 yields, item by item, before None
  r2_reader,        \* what the reader of R2 yields, item by item, before None
  r1_pos,           \* the number of items taken from the reader of R1
  r2_pos,           \* the number of items taken from the reader of R2
  yielded,          \* what PairedFastqParser::next returned, call by call
  pstage            \* "closed", then "open"

pairedVars == <<r1_reader, r2_reader, r1_pos, r2_pos, yielded, pstage>>

VARIABLES
  \* the count and extract commands (sparc-cli)
  cmd,              \* the command running: "none", "count", "extract"
  cmd_args,         \* its arguments
  pulled,           \* the number of items taken from the record stream
  record,           \* the last item taken from it
  total_reads,      \* total_reads of either loop
  assigned_reads,   \* count: assigned_reads
  cmd_counter,      \* count: the GeneCounter
  cmd_matrix,       \* count: the matrix built after the loop
  outputs,          \* count: the bytes of matrix.mtx, barcodes.tsv, genes.tsv
  cmd_corrector,    \* extract: the BarcodeCorrector
  valid_barcode,    \* extract: valid_barcode
  corrected_barcode,\* extract: corrected_barcode
  outcomes,         \* extract: what became of each record, in order
  cmd_exit          \* what run returned, once it has

cliVars ==
  <<cmd, cmd_args, pulled, record, total_reads, assigned_reads, cmd_counter,
    cmd_matrix, outputs, cmd_corrector, valid_barcode, corrected_barcode,
    outcomes, cmd_exit>>

VARIABLES
  \* QcReport / QcMetrics
  metrics,          \* QcReport.metrics
  warnings,         \* QcReport.warnings
  cell_args,        \* the slices passed to the last update_from_cells
  qstage            \* the calls made: new, set, updated, saturated, warned

qcVars == <<metrics, warnings, cell_args, qstage>>

\* the variables each component leaves alone
notMatchVars ==
  <<countVars, umiVars, wlVars, protoVars, pyVars, pairedVars, cliVars,
    qcVars>>
notCountVars ==
  <<matchVars, umiVars, wlVars, protoVars, pyVars, pairedVars, cliVars,
    qcVars>>
notUmiVars ==
  <<matchVars, countVars, wlVars, protoVars, pyVars, pairedVars, cliVars,
    qcVars>>
notWlVars ==
  <<matchVars, countVars, umiVars, protoVars, pyVars, pairedVars, cliVars,
    qcVars>>
notProtoVars ==
  <<matchVars, countVars, umiVars, wlVars, pyVars, pairedVars, cliVars,
    qcVars>>
notPyVars ==
  <<matchVars, countVars, umiVars, wlVars, protoVars, pairedVars, cliVars,
    qcVars>>
notPairedVars ==
  <<matchVars, countVars, umiVars, wlVars, protoVars, pyVars, cliVars,
    qcVars>>
notCliVars ==
  <<matchVars, countVars, umiVars, wlVars, protoVars, pyVars, pairedVars,
    qcVars>>
notQcVars ==
  <<matchVars, countVars, umiVars, wlVars, protoVars, pyVars, pairedVars,
    cliVars>>

(***************************************************************************)
(* Numbers                                                                 *)
(***************************************************************************)
Limb == 2^16

Big(n) == [hi |-> n \div Limb, lo |-> n % Limb]

\* u32::MAX
U32Max == [hi |-> Limb - 1, lo |-> Limb - 1]

BigAdd(a, b) ==
  LET s == a.lo + b.lo
  IN  [hi |-> a.hi + b.hi + (s \div Limb), lo |-> s % Limb]

BigLt(a, b) == a.hi < b.hi \/ (a.hi = b.hi /\ a.lo < b.lo)

BigLeq(a, b) == a = b \/ BigLt(a, b)

\* the value fits in 32 bits
FitsU32(a) == a.hi < Limb

\* reduction modulo 2^32
WrapU32(a) == [hi |-> a.hi % Limb, lo |-> a.lo]

\* the orders in which a hash set / hash map with elements S can be iterated
Orders(S) ==
  {f \in [1..Cardinality(S) -> S] : \A x \in S : \E i \in DOMAIN f : f[i] = x}

(***************************************************************************)
(* Strings and UTF-8 (str, String, core::str::lossy)                       *)
(*                                                                         *)
(* A string or byte vector is the sequence of its bytes.  A printable      *)
(* ASCII byte is written as its character, tab, line feed, form feed and   *)
(* carriage return as "\t", "\n", "\f", "\r", and any other byte as "0x"   *)
(* followed by two upper-case hexadecimal digits ("0x0B", "0xEF").  A      *)
(* character is the sequence of the one to four bytes that encode it.      *)
(***************************************************************************)
\* the bytes 0x80 .. 0xFF in ascending order
HighBytes ==
  <<
    "0x80", "0x81", "0x82", "0x83", "0x84", "0x85", "0x86", "0x87",
    "0x88", "0x89", "0x8A", "0x8B", "0x8C", "0x8D", "0x8E", "0x8F",
    "0x90", "0x91", "0x92", "0x93", "0x94", "0x95", "0x96", "0x97",
    "0x98", "0x99", "0x9A", "0x9B", "0x9C", "0x9D", "0x9E", "0x9F",
    "0xA0", "0xA1", "0xA2", "0xA3", "0xA4", "0xA5", "0xA6", "0xA7",
    "0xA8", "0xA9", "0xAA", "0xAB", "0xAC", "0xAD", "0xAE", "0xAF",
    "0xB0", "0xB1", "0xB2", "0xB3", "0xB4", "0xB5", "0xB6", "0xB7",
    "0xB8", "0xB9", "0xBA", "0xBB", "0xBC", "0xBD", "0xBE", "0xBF",
    "0xC0", "0xC1", "0xC2", "0xC3", "0xC4", "0xC5", "0xC6", "0xC7",
    "0xC8", "0xC9", "0xCA", "0xCB", "0xCC", "0xCD", "0xCE", "0xCF",
    "0xD0", "0xD1", "0xD2", "0xD3", "0xD4", "0xD5", "0xD6", "0xD7",
    "0xD8", "0xD9", "0xDA", "0xDB", "0xDC", "0xDD", "0xDE", "0xDF",
    "0xE0", "0xE1", "0xE2", "0xE3", "0xE4", "0xE5", "0xE6", "0xE7",
    "0xE8", "0xE9", "0xEA", "0xEB", "0xEC", "0xED", "0xEE", "0xEF",
    "0xF0", "0xF1", "0xF2", "0xF3", "0xF4", "0xF5", "0xF6", "0xF7",
    "0xF8", "0xF9", "0xFA", "0xFB", "0xFC", "0xFD", "0xFE", "0xFF"
  >>

HighByteSet == {HighBytes[i] : i \in DOMAIN HighBytes}

\* the value of each byte that is 0x80 or above
HighValue == [b \in HighByteSet |->
                127 + (CHOOSE i \in DOMAIN HighBytes : HighBytes[i] = b)]

\* the byte b has a value from lo to hi, both 0x80 or above
ByteWithin(b, lo, hi) ==
  b \in HighByteSet /\ lo <= HighValue[b] /\ HighValue[b] <= hi

\* core::str::utf8_char_width: the length of the character a byte begins:
\* 1 below 0x80, 2 for 0xC2..0xDF, 3 for 0xE0..0xEF, 4 for 0xF0..0xF4, and 0
\* for a byte that begins none
utf8_char_width(b) ==
  IF b \notin HighByteSet THEN 1
  ELSE IF ByteWithin(b, 194, 223) THEN 2
  ELSE IF ByteWithin(b, 224, 239) THEN 3
  ELSE IF ByteWithin(b, 240, 244) THEN 4
  ELSE 0

\* a continuation byte: 0x80..0xBF
IsContinuation(b) == ByteWithin(b, 128, 191)

\* the second byte b2 may follow the first byte b1 of a character of two,
\* three or four bytes: (0xE0, 0xA0..0xBF), (0xED, 0x80..0x9F),
\* (0xF0, 0x90..0xBF), (0xF4, 0x80..0x8F), and 0x80..0xBF after the others
SecondByteOk(b1, b2) ==
  IF b1 = "0xE0" THEN ByteWithin(b2, 160, 191)
  ELSE IF b1 = "0xED" THEN ByteWithin(b2, 128, 159)
  ELSE IF b1 = "0xF0" THEN ByteWithin(b2, 144, 191)
  ELSE IF b1 = "0xF4" THEN ByteWithin(b2, 128, 143)
  ELSE IsContinuation(b2)

\* the k-th byte of bytes is there and is a continuation byte
ContinuationAt(bytes, k) == k <= Len(bytes) /\ IsContinuation(bytes[k])

\* Utf8Chunks::next at the head of bytes, whose first byte begins a
\* character of w bytes: whether the whole character stands there, and the
\* number of bytes taken: the character's, or those of the part that cannot
\* be decoded (the first byte and the bytes after it that were in order)
StepOfWidth(bytes, w) ==
  IF w = 1 THEN [ok |-> TRUE, len |-> 1]
  ELSE IF w = 0 THEN [ok |-> FALSE, len |-> 1]
  ELSE IF ~(2 <= Len(bytes) /\ SecondByteOk(bytes[1], bytes[2]))
    THEN [ok |-> FALSE, len |-> 1]
  ELSE IF w = 2 THEN [ok |-> TRUE, len |-> 2]
  ELSE IF ~ContinuationAt(bytes, 3) THEN [ok |-> FALSE, len |-> 2]
  ELSE IF w = 3 THEN [ok |-> TRUE, len |-> 3]
  ELSE IF ~ContinuationAt(bytes, 4) THEN [ok |-> FALSE, len |-> 3]
  ELSE [ok |-> TRUE, len |-> 4]

\* one step of Utf8Chunks::next at the head of bytes (not empty)
Utf8Step(bytes) == StepOfWidth(bytes, utf8_char_width(bytes[1]))

\* every byte is below 0x80
IsAscii(bytes) == \A i \in DOMAIN bytes : bytes[i] \notin HighByteSet

\* core::str::from_utf8(bytes).is_ok()
RECURSIVE Utf8Valid(_)
ValidFrom(bytes, step) ==
  step.ok /\ Utf8Valid(SubSeq(bytes, step.len + 1, Len(bytes)))

Utf8Valid(bytes) == bytes = <<>> \/ ValidFrom(bytes, Utf8Step(bytes))

\* the characters of bytes one after the other
RECURSIVE Decode(_)
DecodeFrom(bytes, step) ==
  <<SubSeq(bytes, 1, step.len)>>
    \o Decode(SubSeq(bytes, step.len + 1, Len(bytes)))

Decode(bytes) ==
  IF bytes = <<>> THEN <<>> ELSE DecodeFrom(bytes, Utf8Step(bytes))

\* str::chars, collected: the characters of the string s
chars(s) == IF IsAscii(s) THEN [i \in DOMAIN s |-> <<s[i]>>] ELSE Decode(s)

\* the bytes of the characters cs one after the other
RECURSIVE Concat(_)
Concat(cs) == IF cs = <<>> THEN <<>> ELSE cs[1] \o Concat(Tail(cs))

\* chars.into_iter().collect::<String>()
collect(cs) ==
  IF \A i \in DOMAIN cs : Len(cs[i]) = 1 THEN [i \in DOMAIN cs |-> cs[i][1]]
  ELSE Concat(cs)

\* char::REPLACEMENT_CHARACTER, U+FFFD
ReplacementCharacter == <<"0xEF", "0xBF", "0xBD">>

\* String::from_utf8_lossy(bytes).to_string(): the characters kept, and
\* every part that cannot be decoded replaced by one U+FFFD
RECURSIVE from_utf8_lossy(_)
LossyFrom(bytes, step) ==
  (IF step.ok THEN SubSeq(bytes, 1, step.len) ELSE ReplacementCharacter)
    \o from_utf8_lossy(SubSeq(bytes, step.len + 1, Len(bytes)))

from_utf8_lossy(bytes) ==
  IF bytes = <<>> THEN <<>> ELSE LossyFrom(bytes, Utf8Step(bytes))

(***************************************************************************)
(* Barcode corrector (barcode/matcher.rs)                                  *)
(***************************************************************************)
\* (mutant of Bases) the index built without the N-variants
Bases_NoN == <<"A", "C", "G", "T">>

\* the substitution bases, in the order build_mismatch_index tries them
Bases == <<"A", "C", "G", "T", "N">>

\* alphabet of the whitelist entries tried
WlAlphabet == {"A", "C"}
\* alphabet of the observed barcodes that are not whitelist candidates
ObsAlphabet == {"A", "N"}

Strings(alphabet, n) == [1..n -> alphabet]

WlBarcodes == Strings(WlAlphabet, BarcodeLen)

\* whitelists: sets of barcodes of uniform length (Whitelist::from_vec)
Whitelists == {W \in SUBSET WlBarcodes : Cardinality(W) <= MaxWl}

\* observed barcodes: every whitelist candidate, the strings of length L with
\* N's in them, and strings of length L - 1 (unequal to the whitelist's)
Observed ==
  WlBarcodes \cup Strings(ObsAlphabet, BarcodeLen)
             \cup Strings(ObsAlphabet, BarcodeLen - 1)

\* configured max distances: none, index only, index and scan, and u32::MAX
Distances == {Big(0), Big(1), Big(2), U32Max}

Exact(bc) == [kind |-> "Exact", barcode |-> bc]
Corrected(obs, canon, dist) ==
  [kind |-> "Corrected", observed |-> obs, canonical |-> canon,
   distance |-> dist]
NoMatch(bc) == [kind |-> "NoMatch", barcode |-> bc]

EmptyIndex == [k \in {} |-> <<>>]

\* the 1-mismatch variant: the characters with the one at position i set to
\* base
Variant(cs, i, base) == [cs EXCEPT ![i] = <<base>>]

\* the k-th iteration (k from 0) of the two inner loops for the barcode
\* whose characters are cs, over the positions 0..chars.len() and the bases:
\* the variant collected into a string, the barcode pushed under it, and
\* whether the guard chars[i] != base lets the push happen
LoopIteration(barcode, cs, k) ==
  LET i    == (k \div Len(Bases)) + 1
      base == Bases[(k % Len(Bases)) + 1]
  IN  [variant |-> collect(Variant(cs, i, base)), barcode |-> barcode,
       pushed |-> cs[i] # <<base>>]

\* the pushes index.entry(variant_str).or_default().push(barcode.clone()),
\* in the order the three loops make them
RECURSIVE Pushes(_)
Pushes(wl) ==
  IF wl = <<>> THEN <<>>
  ELSE LET cs  == chars(wl[1])
           all == [k \in 1..(Len(cs) * Len(Bases)) |->
                     LoopIteration(wl[1], cs, k - 1)]
           IsPushed(p) == p.pushed
       IN  SelectSeq(all, IsPushed) \o Pushes(Tail(wl))

\* (mutant of build_mismatch_index) only the first barcode pushed under a
\* key is kept
build_mismatch_index_First(wl) ==
  LET pushes == Pushes(wl)
  IN  [key \in {pushes[j].variant : j \in DOMAIN pushes} |->
         LET Under(p) == p.variant = key
             mine == SelectSeq(pushes, Under)
         IN  <<mine[1].barcode>>]

\* wl: the whitelist in the order whitelist.iter() yields it.  Each key maps
\* to the barcodes pushed under it, in push order.
build_mismatch_index(wl) ==
  LET pushes == Pushes(wl)
  IN  [key \in {pushes[j].variant : j \in DOMAIN pushes} |->
         LET Under(p) == p.variant = key
             mine == SelectSeq(pushes, Under)
         IN  [j \in DOMAIN mine |-> mine[j].barcode]]

\* x.zip(y).filter(|(a, b)| a != b).count(): the positions both have, at
\* which they differ
ZipCountDiffering(x, y) ==
  Cardinality({i \in DOMAIN x \cap DOMAIN y : x[i] # y[i]})

\* BarcodeCorrector::hamming_distance: u32::MAX when the byte lengths differ,
\* else the number of differing characters
hamming_distance(a, b) ==
  IF Len(a) # Len(b) THEN U32Max
  ELSE Big(ZipCountDiffering(chars(a), chars(b)))

NoBest == [some |-> FALSE]

\* (mutant of ScanStep) the scan without the test dist <= max_distance
ScanStep_NoBound(acc, barcode, wl_barcode, d) ==
  LET dist == hamming_distance(barcode, wl_barcode)
  IN  IF ~acc.best.some
        THEN [acc EXCEPT !.best =
                [some |-> TRUE, barcode |-> wl_barcode, dist |-> dist]]
      ELSE IF BigLt(dist, acc.best.dist)
        THEN [best |-> [some |-> TRUE, barcode |-> wl_barcode, dist |-> dist],
              ambiguous |-> FALSE]
      ELSE IF dist = acc.best.dist
        THEN [acc EXCEPT !.ambiguous = TRUE]
      ELSE acc

\* one iteration of the brute-force loop; acc = [best, ambiguous]
ScanStep(acc, barcode, wl_barcode, d) ==
  LET dist == hamming_distance(barcode, wl_barcode)
  IN  IF BigLeq(dist, d)
        THEN IF ~acc.best.some
               THEN [acc EXCEPT !.best =
                       [some |-> TRUE, barcode |-> wl_barcode, dist |-> dist]]
             ELSE IF BigLt(dist, acc.best.dist)
               THEN [best |-> [some |-> TRUE, barcode |-> wl_barcode,
                               dist |-> dist],
                     ambiguous |-> FALSE]
             ELSE IF dist = acc.best.dist
               THEN [acc EXCEPT !.ambiguous = TRUE]
             ELSE acc
        ELSE acc

RECURSIVE ScanLoop(_, _, _, _, _)
ScanLoop(acc, barcode, wl, n, d) ==
  IF n > Len(wl) THEN acc
  ELSE ScanLoop(ScanStep(acc, barcode, wl[n], d), barcode, wl, n + 1, d)

\* (mutant of BruteForce) the best entry returned although another ties it
BruteForce_IgnoreAmbiguous(barcode, wl, d) ==
  LET acc == ScanLoop([best |-> NoBest, ambiguous |-> FALSE], barcode, wl, 1, d)
  IN  IF acc.best.some
        THEN Corrected(barcode, acc.best.barcode, acc.best.dist)
        ELSE NoMatch(barcode)

\* the d > 1 branch; wl: the whitelist in iteration order
BruteForce(barcode, wl, d) ==
  LET acc == ScanLoop([best |-> NoBest, ambiguous |-> FALSE], barcode, wl, 1, d)
  IN  IF acc.best.some /\ ~acc.ambiguous
        THEN Corrected(barcode, acc.best.barcode, acc.best.dist)
        ELSE NoMatch(barcode)

\* (mutant of match_barcode) the index consulted before the membership test
match_barcode_IndexFirst(W, wl, d, index, barcode) ==
  IF d # Big(0) /\ barcode \in DOMAIN index
    THEN IF Len(index[barcode]) = 1
           THEN Corrected(barcode, index[barcode][1], Big(1))
           ELSE NoMatch(barcode)
  ELSE IF barcode \in W THEN Exact(barcode)
  ELSE IF BigLt(Big(1), d) THEN BruteForce(barcode, wl, d)
  ELSE NoMatch(barcode)

\* W: whitelist set, wl: its iteration order, d: max_distance
match_barcode(W, wl, d, index, barcode) ==
  IF barcode \in W THEN Exact(barcode)
  ELSE IF d = Big(0) THEN NoMatch(barcode)
  ELSE IF barcode \in DOMAIN index
    THEN IF Len(index[barcode]) = 1
           THEN Corrected(barcode, index[barcode][1], Big(1))
           ELSE NoMatch(barcode)
  ELSE IF BigLt(Big(1), d) THEN BruteForce(barcode, wl, d)
  ELSE NoMatch(barcode)

match_exact(W, barcode) ==
  IF barcode \in W THEN Exact(barcode) ELSE NoMatch(barcode)

NoResult == [kind |-> "None"]

\* BarcodeCorrector::new(whitelist, max_distance)
CorrectorNew ==
  /\ mstage = "new"
  /\ \E W \in Whitelists, d \in Distances :
       /\ \E wl \in Orders(W) :
            mismatch_index' =
              IF BigLeq(Big(1), d) THEN build_mismatch_index(wl)
              ELSE EmptyIndex
       /\ whitelist' = W
       /\ max_distance' = d
  /\ mstage' = "corrector"
  /\ UNCHANGED <<query, result>>
  /\ UNCHANGED notMatchVars

\* corrector.match_barcode(bc)
MatchBarcode ==
  /\ mstage = "corrector"
  /\ \E bc \in Observed :
       /\ \E wl \in Orders(whitelist) :
            result' = match_barcode(whitelist, wl, max_distance,
                                    mismatch_index, bc)
       /\ query' = bc
  /\ mstage' = "match_barcode"
  /\ UNCHANGED <<whitelist, max_distance, mismatch_index>>
  /\ UNCHANGED notMatchVars

\* BarcodeMatcher::new(whitelist)
MatcherNew ==
  /\ mstage = "new"
  /\ \E W \in Whitelists : whitelist' = W
  /\ mstage' = "matcher"
  /\ UNCHANGED <<max_distance, mismatch_index, query, result>>
  /\ UNCHANGED notMatchVars

\* matcher.match_exact(bc)
MatchExact ==
  /\ mstage = "matcher"
  /\ \E bc \in Observed :
       /\ result' = match_exact(whitelist, bc)
       /\ query' = bc
  /\ mstage' = "match_exact"
  /\ UNCHANGED <<whitelist, max_distance, mismatch_index>>
  /\ UNCHANGED notMatchVars

MatchNext == CorrectorNew \/ MatchBarcode \/ MatcherNew \/ MatchExact

(***************************************************************************)
(* Properties of the corrector                                             *)
(***************************************************************************)
\* Hamming distance of two strings of one length, as a plain number
Differing(a, b) == Cardinality({i \in 1..Len(a) : a[i] # b[i]})

\* the whitelist entries of the length of s at Hamming distance n from s
AtDistance(s, n) ==
  {w \in whitelist : Len(w) = Len(s) /\ Differing(s, w) = n}

\* the least Hamming distance from s to a whitelist entry within max_distance,
\* or -1 when there is none
MinWithin(s) ==
  LET ns == {n \in 0..Len(s) :
               AtDistance(s, n) # {} /\ BigLeq(Big(n), max_distance)}
  IN  IF ns = {} THEN -1 ELSE CHOOSE n \in ns : \A m \in ns : n <= m

\* C1: match_barcode returns Exact(bc) exactly when bc is a member of the
\* whitelist, whatever max_distance is (a member is never Corrected or
\* NoMatch); match_exact returns Exact(bc) for members and NoMatch(bc)
\* otherwise.
C1_ExactIffMember ==
  /\ mstage = "match_barcode" =>
       /\ (result.kind = "Exact") <=> (query \in whitelist)
       /\ result.kind = "Exact" => result.barcode = query
  /\ mstage = "match_exact" =>
       /\ query \in whitelist => result = Exact(query)
       /\ query \notin whitelist => result = NoMatch(query)

\* a member that is also a 1-mismatch variant of another member was matched
C1_Witness ==
  /\ mstage = "match_barcode"
  /\ query \in whitelist
  /\ query \in DOMAIN mismatch_index
  /\ result = Exact(query)

\* C2: with max_distance >= 1 and bc not in the whitelist, if two or more
\* entries within max_distance tie at the least distance, the result is
\* NoMatch(bc), from the index as from the full scan.
C2_TieIsNoMatch ==
  (/\ mstage = "match_barcode"
   /\ BigLeq(Big(1), max_distance)
   /\ query \notin whitelist
   /\ MinWithin(query) >= 1
   /\ Cardinality(AtDistance(query, MinWithin(query))) >= 2)
  => result = NoMatch(query)

\* a tie at distance 2, which only the full scan can see
C2_Witness ==
  /\ mstage = "match_barcode"
  /\ query \notin whitelist
  /\ MinWithin(query) = 2
  /\ Cardinality(AtDistance(query, 2)) >= 2
  /\ result = NoMatch(query)

\* a tie at distance 1, answered from the index
C2_WitnessIndex ==
  /\ mstage = "match_barcode"
  /\ query \notin whitelist
  /\ Cardinality(AtDistance(query, 1)) >= 2
  /\ result = NoMatch(query)

\* C3: in Corrected(observed, canonical, dist), observed is the input,
\* canonical is a whitelist member other than the input, and
\* 1 <= dist <= max_distance; so max_distance = 0 never corrects.
C3_CorrectedSound ==
  (mstage = "match_barcode" /\ result.kind = "Corrected") =>
    /\ result.observed = query
    /\ result.canonical \in whitelist
    /\ result.canonical # query
    /\ BigLeq(Big(1), result.distance)
    /\ BigLeq(result.distance, max_distance)
    /\ max_distance # Big(0)

\* a correction at distance 2 under max_distance = 2, found by the scan
C3_Witness ==
  /\ mstage = "match_barcode"
  /\ max_distance = Big(2)
  /\ result.kind = "Corrected"
  /\ result.distance = Big(2)
  /\ \E w \in whitelist : Len(w) = Len(query) /\ Differing(query, w) = 3

\* C4: with max_distance = 1, a whitelist of uniform length L and an observed
\* s of length L outside it: the result is Corrected(s, w, 1) when w is the
\* only entry at Hamming distance exactly 1 from s, and NoMatch(s) otherwise;
\* N counts as any other character.
C4_OneMismatch ==
  (/\ mstage = "match_barcode"
   /\ max_distance = Big(1)
   /\ query \notin whitelist
   /\ \A w \in whitelist : Len(w) = Len(query))
  => LET near == AtDistance(query, 1)
     IN  /\ Cardinality(near) = 1 =>
              \A w \in near : result = Corrected(query, w, Big(1))
         /\ Cardinality(near) # 1 => result = NoMatch(query)

\* an observation with one N was corrected to the only entry next to it
C4_Witness ==
  /\ mstage = "match_barcode"
  /\ max_distance = Big(1)
  /\ \E i \in DOMAIN query : query[i] = "N"
  /\ Cardinality(whitelist) >= 2
  /\ result.kind = "Corrected"
  /\ result.distance = Big(1)

\* the nearest entry is two mismatches away: no correction with distance 1
C4_WitnessFar ==
  /\ mstage = "match_barcode"
  /\ max_distance = Big(1)
  /\ whitelist # {}
  /\ MinWithin(query) = -1
  /\ AtDistance(query, 2) # {}
  /\ result = NoMatch(query)


(***************************************************************************)
(* Gene counter and count matrix (count/matrix.rs)                         *)
(***************************************************************************)
\* cell barcodes and gene labels of the observations tried
CellLabels == <<"CELL1", "CELL2">>
GeneLabels == <<"GENE1", "GENE2">>

Range(f) == {f[x] : x \in DOMAIN f}

\* the count arguments tried for add_count (increment adds 1)
CountArgs == {Big(0), U32Max}

EmptyMap == [k \in {} |-> 0]

\* GeneCounter::new
NewCounter ==
  [barcode_index |-> EmptyMap, gene_index |-> EmptyMap, counts |-> EmptyMap,
   barcodes |-> <<>>, genes |-> <<>>]

\* *index.entry(label).or_insert_with(|| labels.len()): the index of a label,
\* 0-based, the next free one when the label is new
EntryIndex(index, labels, label) ==
  IF label \in DOMAIN index THEN index[label] ELSE Len(labels)

\* the entry inserted into the index map by or_insert_with
EntryInsert(index, labels, label) ==
  IF label \in DOMAIN index THEN index ELSE index @@ (label :> Len(labels))

\* (mutant of EntryPush) a new label put in front of the vector
EntryPush_Front(index, labels, label) ==
  IF label \in DOMAIN index THEN labels ELSE <<label>> \o labels

\* the push onto the label vector inside or_insert_with
EntryPush(index, labels, label) ==
  IF label \in DOMAIN index THEN labels ELSE Append(labels, label)

\* the exact sum *entry + count of add_count, before it is stored as a u32
CountSum(self, barcode, gene, count) ==
  LET cell_idx == EntryIndex(self.barcode_index, self.barcodes, barcode)
      gene_idx == EntryIndex(self.gene_index, self.genes, gene)
      key      == <<gene_idx, cell_idx>>
      old      == IF key \in DOMAIN self.counts THEN self.counts[key]
                  ELSE Big(0)
  IN  BigAdd(old, count)

\* (mutant of add_count) the count stored in place of the sum
add_count_Overwrite(self, barcode, gene, count) ==
  LET cell_idx == EntryIndex(self.barcode_index, self.barcodes, barcode)
      gene_idx == EntryIndex(self.gene_index, self.genes, gene)
      key      == <<gene_idx, cell_idx>>
  IN  [barcode_index |->
         EntryInsert(self.barcode_index, self.barcodes, barcode),
       barcodes |-> EntryPush(self.barcode_index, self.barcodes, barcode),
       gene_index |-> EntryInsert(self.gene_index, self.genes, gene),
       genes |-> EntryPush(self.gene_index, self.genes, gene),
       counts |-> IF key \in DOMAIN self.counts
                    THEN [self.counts EXCEPT ![key] = count]
                    ELSE self.counts @@ (key :> count)]

\* add_count when += does not panic (the sum wraps to 32 bits where the
\* build has no overflow checks)
add_count(self, barcode, gene, count) ==
  LET cell_idx == EntryIndex(self.barcode_index, self.barcodes, barcode)
      gene_idx == EntryIndex(self.gene_index, self.genes, gene)
      key      == <<gene_idx, cell_idx>>
      sum      == WrapU32(CountSum(self, barcode, gene, count))
  IN  [barcode_index |->
         EntryInsert(self.barcode_index, self.barcodes, barcode),
       barcodes |-> EntryPush(self.barcode_index, self.barcodes, barcode),
       gene_index |-> EntryInsert(self.gene_index, self.genes, gene),
       genes |-> EntryPush(self.gene_index, self.genes, gene),
       counts |-> IF key \in DOMAIN self.counts
                    THEN [self.counts EXCEPT ![key] = sum]
                    ELSE self.counts @@ (key :> sum)]

increment(self, barcode, gene) == add_count(self, barcode, gene, Big(1))

\* (mutant of build) the two dimensions exchanged
build_SwapDims(self, order) ==
  [barcodes |-> self.barcodes,
   genes |-> self.genes,
   rows |-> [i \in DOMAIN order |-> order[i][1]],
   cols |-> [i \in DOMAIN order |-> order[i][2]],
   values |-> [i \in DOMAIN order |-> self.counts[order[i]]],
   n_rows |-> Len(self.barcodes),
   n_cols |-> Len(self.genes)]

\* build; order: the (gene_idx, cell_idx) keys as the map yields them
build(self, order) ==
  [barcodes |-> self.barcodes,
   genes |-> self.genes,
   rows |-> [i \in DOMAIN order |-> order[i][1]],
   cols |-> [i \in DOMAIN order |-> order[i][2]],
   values |-> [i \in DOMAIN order |-> self.counts[order[i]]],
   n_rows |-> Len(self.genes),
   n_cols |-> Len(self.barcodes)]

\* the longest row of data
MaxRowLen(data) ==
  IF data = <<>> THEN 0
  ELSE CHOOSE n \in {Len(data[i]) : i \in DOMAIN data} :
         \A i \in DOMAIN data : Len(data[i]) <= n

\* from_dense: the cells of data in row-major order, those with val > 0 kept
from_dense(barcodes, genes, data) ==
  LET w     == MaxRowLen(data)
      cells == [k \in 1..(Len(data) * w) |->
                  LET i == (k - 1) \div w
                      j == (k - 1) % w
                  IN  [i |-> i, j |-> j,
                       kept |-> /\ j < Len(data[i + 1])
                                /\ BigLt(Big(0), data[i + 1][j + 1]),
                       val |-> IF j < Len(data[i + 1])
                                 THEN data[i + 1][j + 1] ELSE Big(0)]]
      Kept(c) == c.kept
      kept    == SelectSeq(cells, Kept)
  IN  [barcodes |-> barcodes,
       genes |-> genes,
       rows |-> [k \in DOMAIN kept |-> kept[k].i],
       cols |-> [k \in DOMAIN kept |-> kept[k].j],
       values |-> [k \in DOMAIN kept |-> kept[k].val],
       n_rows |-> Len(genes),
       n_cols |-> Len(barcodes)]

\* get: the value of the first entry at (gene_idx, cell_idx), else 0
get(self, gene_idx, cell_idx) ==
  LET hits == {i \in DOMAIN self.rows :
                 self.rows[i] = gene_idx /\ self.cols[i] = cell_idx}
  IN  IF hits = {} THEN Big(0)
      ELSE self.values[CHOOSE i \in hits : \A j \in hits : i <= j]

\* (mutant of Accumulate) the sums kept in 32 bits
RECURSIVE Accumulate_U32(_, _, _, _)
Accumulate_U32(values, keys, k, n) ==
  IF n = 0 THEN Big(0)
  ELSE IF keys[n] = k
    THEN WrapU32(BigAdd(Accumulate_U32(values, keys, k, n - 1), values[n]))
  ELSE Accumulate_U32(values, keys, k, n - 1)

\* counts[k] += values[i] as u64, over the first n entries whose key is k
RECURSIVE Accumulate(_, _, _, _)
Accumulate(values, keys, k, n) ==
  IF n = 0 THEN Big(0)
  ELSE IF keys[n] = k
    THEN BigAdd(Accumulate(values, keys, k, n - 1), values[n])
  ELSE Accumulate(values, keys, k, n - 1)

Panic == [panic |-> TRUE]

\* counts_per_cell: the vector of n_cols sums; indexing counts[c] panics
\* when some c >= n_cols
counts_per_cell(self) ==
  IF \E i \in DOMAIN self.cols : self.cols[i] >= self.n_cols THEN Panic
  ELSE [panic |-> FALSE,
        counts |-> [c \in 1..self.n_cols |->
          Accumulate(self.values, self.cols, c - 1, Len(self.cols))]]

\* counts_per_gene: the vector of n_rows sums; indexing counts[r] panics
\* when some r >= n_rows
counts_per_gene(self) ==
  IF \E i \in DOMAIN self.rows : self.rows[i] >= self.n_rows THEN Panic
  ELSE [panic |-> FALSE,
        counts |-> [r \in 1..self.n_rows |->
          Accumulate(self.values, self.rows, r - 1, Len(self.rows))]]

\* the positions rows.iter().zip(cols.iter()) visits
Zipped(self) ==
  1..(IF Len(self.rows) < Len(self.cols) THEN Len(self.rows)
      ELSE Len(self.cols))

\* (mutant of genes_per_cell) the sets indexed by row and filled with columns
genes_per_cell_ByRow(self) ==
  IF \E i \in Zipped(self) : self.rows[i] >= self.n_cols THEN Panic
  ELSE [panic |-> FALSE,
        counts |-> [c \in 1..self.n_cols |->
          Big(Cardinality({self.cols[i] : i \in
                             {j \in Zipped(self) : self.rows[j] = c - 1}}))]]

\* genes_per_cell: one set per column, genes[c].insert(r) for every entry,
\* then the sizes of the sets; indexing genes[c] panics when some c >= n_cols
genes_per_cell(self) ==
  IF \E i \in Zipped(self) : self.cols[i] >= self.n_cols THEN Panic
  ELSE [panic |-> FALSE,
        counts |-> [c \in 1..self.n_cols |->
          Big(Cardinality({self.rows[i] : i \in
                             {j \in Zipped(self) : self.cols[j] = c - 1}}))]]

\* cells_per_gene: one set per row, cells[r].insert(c) for every entry, then
\* the sizes of the sets; indexing cells[r] panics when some r >= n_rows
cells_per_gene(self) ==
  IF \E i \in Zipped(self) : self.rows[i] >= self.n_rows THEN Panic
  ELSE [panic |-> FALSE,
        counts |-> [r \in 1..self.n_rows |->
          Big(Cardinality({self.cols[i] : i \in
                             {j \in Zipped(self) : self.rows[j] = r - 1}}))]]

(***************************************************************************)
(* Matrix Market text: write_mtx (count/matrix.rs) and the reader of the   *)
(* qc command (sparc-cli/src/commands/qc.rs)                               *)
(***************************************************************************)
DecimalDigits == <<"0", "1", "2", "3", "4", "5", "6", "7", "8", "9">>

\* quotient and remainder of a two-limb number by ten
DivTen(a) ==
  LET t == (a.hi % 10) * Limb + a.lo
  IN  [hi |-> a.hi \div 10, lo |-> t \div 10]

ModTen(a) == ((a.hi % 10) * Limb + a.lo) % 10

\* Display of an unsigned integer: its decimal digits, no sign, no padding
RECURSIVE Display(_)
Display(a) ==
  IF a.hi = 0 /\ a.lo < 10 THEN <<DecimalDigits[a.lo + 1]>>
  ELSE Display(DivTen(a)) \o <<DecimalDigits[ModTen(a) + 1]>>

\* "%%MatrixMarket matrix coordinate integer general"
BannerLine ==
  <<
   "%", "%", "M", "a", "t", "r", "i", "x", "M", "a", "r", "k", "e", "t",
   " ", "m", "a", "t", "r", "i", "x", " ", "c", "o", "o", "r", "d", "i",
   "n", "a", "t", "e", " ", "i", "n", "t", "e", "g", "e", "r", " ", "g",
   "e", "n", "e", "r", "a", "l"
  >>

\* write!(writer, "{} {} {}", a, b, c)
Triple(a, b, c) == Display(a) \o <<" ">> \o Display(b) \o <<" ">> \o Display(c)

\* (mutant of DataLines) the indices written as stored, 0-based
RECURSIVE DataLines_ZeroBased(_, _)
DataLines_ZeroBased(self, n) ==
  IF n = 0 THEN <<>>
  ELSE DataLines_ZeroBased(self, n - 1)
       \o (IF n > 1 THEN <<"\n">> ELSE <<>>)
       \o Triple(Big(self.rows[n]), Big(self.cols[n]), self.values[n])

\* the data lines of entries 1..n: a newline before every entry but the
\* first, indices written 1-based
RECURSIVE DataLines(_, _)
DataLines(self, n) ==
  IF n = 0 THEN <<>>
  ELSE DataLines(self, n - 1)
       \o (IF n > 1 THEN <<"\n">> ELSE <<>>)
       \o Triple(Big(self.rows[n] + 1), Big(self.cols[n] + 1), self.values[n])

\* write_mtx: the bytes written to the file
write_mtx(self) ==
  BannerLine \o <<"\n">>
  \o <<"%">> \o <<"\n">>
  \o Triple(Big(self.n_rows), Big(self.n_cols), Big(Len(self.values)))
  \o <<"\n">>
  \o DataLines(self, Len(self.values))

\* the characters of a label
Text(label) ==
  CASE label = "CELL1" -> <<"C", "E", "L", "L", "1">>
    [] label = "CELL2" -> <<"C", "E", "L", "L", "2">>
    [] label = "GENE1" -> <<"G", "E", "N", "E", "1">>
    [] label = "GENE2" -> <<"G", "E", "N", "E", "2">>

\* the file not written yet
NotWritten == <<"not written">>

\* (mutant of BarcodeLines) the barcodes separated by newlines, none after
\* the last one
RECURSIVE BarcodeLines_Separated(_, _)
BarcodeLines_Separated(barcodes, n) ==
  IF n = 0 THEN <<>>
  ELSE BarcodeLines_Separated(barcodes, n - 1)
       \o (IF n > 1 THEN <<"\n">> ELSE <<>>) \o Text(barcodes[n])

\* for barcode in &self.barcodes { writeln!(writer, "{}", barcode) }, for
\* the first n barcodes
RECURSIVE BarcodeLines(_, _)
BarcodeLines(barcodes, n) ==
  IF n = 0 THEN <<>>
  ELSE BarcodeLines(barcodes, n - 1) \o Text(barcodes[n]) \o <<"\n">>

\* write_barcodes: the bytes written to the file
write_barcodes(self) == BarcodeLines(self.barcodes, Len(self.barcodes))

\* for gene in &self.genes { writeln!(writer, "{}\t{}", gene, gene) }, for
\* the first n genes
RECURSIVE GeneLines(_, _)
GeneLines(genes, n) ==
  IF n = 0 THEN <<>>
  ELSE GeneLines(genes, n - 1)
       \o Text(genes[n]) \o <<"\t">> \o Text(genes[n]) \o <<"\n">>

\* write_genes: the bytes written to the file
write_genes(self) == GeneLines(self.genes, Len(self.genes))

\* the elements of a finite set of numbers in ascending order
Ascending(S) ==
  [j \in 1..Cardinality(S) |->
     CHOOSE x \in S : Cardinality({y \in S : y < x}) = j - 1]

\* an item of BufRead::lines: Ok(line)
OkLine(line) == [ok |-> TRUE, line |-> line]

\* an item of BufRead::lines: Err(io::Error) of kind InvalidData, for a line
\* that is no UTF-8
InvalidData == [ok |-> FALSE, kind |-> "InvalidData"]

\* BufRead::lines, collected: one item for the bytes up to each line feed and
\* one for the bytes after the last, if any; the item is the text without
\* its line feed and without a carriage return before the line feed, or an
\* error when the bytes are no UTF-8
Lines(bytes) ==
  LET n      == Len(bytes)
      feeds  == Ascending({k \in 1..n : bytes[k] = "\n"})
      ends   == IF n > 0 /\ bytes[n] # "\n" THEN Append(feeds, n + 1)
                ELSE feeds
      Raw(j) == SubSeq(bytes, IF j = 1 THEN 1 ELSE ends[j - 1] + 1,
                       ends[j] - 1)
      Cut(l) == IF ends # <<>> /\ Len(l) > 0 /\ l[Len(l)] = "\r"
                  THEN SubSeq(l, 1, Len(l) - 1) ELSE l
  IN  [j \in DOMAIN ends |->
         IF ~Utf8Valid(Raw(j)) THEN InvalidData
         ELSE IF j <= Len(feeds) THEN OkLine(Cut(Raw(j)))
         ELSE OkLine(Raw(j))]

\* char::is_whitespace: the characters with the property White_Space, which
\* are U+0009..U+000D, U+0020, U+0085, U+00A0, U+1680, U+2000..U+200A,
\* U+2028, U+2029, U+202F, U+205F and U+3000
Whitespace ==
  {<<"\t">>, <<"\n">>, <<"0x0B">>, <<"\f">>, <<"\r">>, <<" ">>,
   <<"0xC2", "0x85">>, <<"0xC2", "0xA0">>, <<"0xE1", "0x9A", "0x80">>,
   <<"0xE2", "0x80", "0xA8">>, <<"0xE2", "0x80", "0xA9">>,
   <<"0xE2", "0x80", "0xAF">>, <<"0xE2", "0x81", "0x9F">>,
   <<"0xE3", "0x80", "0x80">>}
    \cup {<<"0xE2", "0x80", HighBytes[k]>> : k \in 1..11}

\* str::split_whitespace, collected: the maximal runs of characters that are
\* not whitespace
split_whitespace(line) ==
  LET cs      == chars(line)
      n       == Len(cs)
      IsWs(k) == cs[k] \in Whitespace
      starts  == Ascending({k \in 1..n :
                   ~IsWs(k) /\ (k = 1 \/ IsWs(k - 1))})
      stops   == Ascending({k \in 1..n :
                   ~IsWs(k) /\ (k = n \/ IsWs(k + 1))})
  IN  [j \in DOMAIN starts |-> collect(SubSeq(cs, starts[j], stops[j]))]

DigitValue(c) == CHOOSE d \in 0..9 : DecimalDigits[d + 1] = c

\* the number written by the first n digits of digits
RECURSIVE DigitsValue(_, _)
DigitsValue(digits, n) ==
  IF n = 0 THEN Big(0)
  ELSE LET a == DigitsValue(digits, n - 1)
           t == a.lo * 10 + DigitValue(digits[n])
       IN  [hi |-> a.hi * 10 + (t \div Limb), lo |-> t % Limb]

\* str::parse::<usize>() / parse::<u64>(): an optional '+', then one or more
\* decimal digits (tokens here are far too short to overflow 64 bits)
ParseUnsigned(token) ==
  LET digits == IF token # <<>> /\ token[1] = "+" THEN Tail(token) ELSE token
  IN  IF digits = <<>> \/ \E k \in DOMAIN digits : digits[k] \notin Range(DecimalDigits)
        THEN [ok |-> FALSE]
        ELSE [ok |-> TRUE, value |-> DigitsValue(digits, Len(digits))]

\* the value of a two-limb number known to be small
ToInt(a) == a.hi * Limb + a.lo

\* the reader before the first line
ReadStart ==
  [n_rows |-> 0, n_cols |-> 0, counts_per_cell |-> <<>>,
   genes_per_cell |-> <<>>, entries |-> <<>>, err |-> FALSE, done |-> TRUE]

\* the header branch: parts.len() == 3 && i <= 2
ReadHeader(st, parts) ==
  LET r == ParseUnsigned(parts[1])
      c == ParseUnsigned(parts[2])
      n_rows == IF r.ok THEN ToInt(r.value) ELSE 0
      n_cols == IF c.ok THEN ToInt(c.value) ELSE 0
  IN  [st EXCEPT !.n_rows = n_rows, !.n_cols = n_cols,
                 !.counts_per_cell = [k \in 1..n_cols |-> Big(0)],
                 !.genes_per_cell = [k \in 1..n_cols |-> {}]]

\* the data branch: a 1-based "row col value" line; a field that does not
\* parse ends the run with an error; a triple outside the declared shape is
\* skipped.  entries lists the triples taken, 0-based, in file order.
ReadData(st, parts) ==
  LET row == ParseUnsigned(parts[1])
      col == ParseUnsigned(parts[2])
      val == ParseUnsigned(parts[3])
  IN  IF ~row.ok \/ ~col.ok \/ ~val.ok THEN [st EXCEPT !.err = TRUE]
      ELSE IF /\ BigLt(Big(0), col.value) /\ BigLeq(col.value, Big(st.n_cols))
              /\ BigLt(Big(0), row.value) /\ BigLeq(row.value, Big(st.n_rows))
        THEN LET r == ToInt(row.value) - 1
                 c == ToInt(col.value) - 1
             IN  [st EXCEPT
                    !.counts_per_cell[c + 1] = BigAdd(@, val.value),
                    !.genes_per_cell[c + 1] = @ \cup {r},
                    !.entries = Append(@, <<r, c, val.value>>)]
      ELSE st

\* the body of the loop over the lines; i counts every line, from 0
ReadLine(st, i, item) ==
  IF st.err THEN st
  ELSE IF ~item.ok THEN [st EXCEPT !.err = TRUE]
  ELSE IF item.line # <<>> /\ item.line[1] = "%" THEN st
  ELSE LET parts == split_whitespace(item.line)
       IN  IF Len(parts) = 3 /\ i <= 2 THEN ReadHeader(st, parts)
           ELSE IF Len(parts) = 3 THEN ReadData(st, parts)
           ELSE st

RECURSIVE ReadLines(_, _)
ReadLines(lines, n) ==
  IF n = 0 THEN ReadStart
  ELSE ReadLine(ReadLines(lines, n - 1), n - 1, lines[n])

\* the matrix part of the qc command's run
read_mtx(bytes) == LET lines == Lines(bytes) IN ReadLines(lines, Len(lines))

(***************************************************************************)
(* UMI deduplication (umi/mod.rs, umi/dedup.rs)                            *)
(*                                                                         *)
(* A u32 addition that passes u32::MAX panics where the build checks       *)
(* overflow and wraps where it does not; checks says which build runs.     *)
(***************************************************************************)
\* Umi::with_count(sequence, count)
Umi(sequence, count) == [sequence |-> sequence, count |-> count]

\* UmiGroup::new(representative)
UmiGroup(representative) ==
  [representative |-> representative, members |-> <<>>,
   total_count |-> Big(0)]

\* the sum a += b leaves in a u32 where the build does not check overflow
AddU32(a, b) == WrapU32(BigAdd(a, b))

\* a += b passes u32::MAX
AddOverflows(a, b) == ~FitsU32(BigAdd(a, b))

\* (mutant of add_member) the member stored, its count not added
add_member_NoTotal(group, umi) ==
  [group EXCEPT !.members = Append(@, umi)]

\* group.add_member(umi), where the sum fits or wraps
add_member(group, umi) ==
  [group EXCEPT !.total_count = AddU32(@, umi.count),
                !.members = Append(@, umi)]

\* UmiGraph::new().nodes
NoNodes == [k \in {} |-> Big(0)]

\* *map.entry(umi).or_insert(0)
EntryOrZero(map, umi) == IF umi \in DOMAIN map THEN map[umi] ELSE Big(0)

\* graph.add_umi(umi, count), where the sum fits or wraps
add_umi(nodes, umi, count) ==
  [k \in DOMAIN nodes \cup {umi} |->
     IF k = umi THEN AddU32(EntryOrZero(nodes, umi), count) ELSE nodes[k]]

\* the loop `for umi in umis { graph.add_umi(..) }` from its n-th iteration:
\* the nodes, or the panic of an overflow check
RECURSIVE AddUmis(_, _, _, _)
AddUmis(nodes, list, n, checks) ==
  IF n > Len(list) THEN [panic |-> FALSE, nodes |-> nodes]
  ELSE IF checks /\ AddOverflows(EntryOrZero(nodes, list[n].sequence),
                                 list[n].count)
    THEN [panic |-> TRUE]
  ELSE AddUmis(add_umi(nodes, list[n].sequence, list[n].count),
               list, n + 1, checks)

\* UmiGraph::hamming_distance
umi_hamming_distance(a, b) ==
  IF Len(a) # Len(b) THEN U32Max
  ELSE Big(ZipCountDiffering(chars(a), chars(b)))

\* the pairs (i, j), i < j, in the order the two loops of build_edges visit
\* them; keys: nodes.keys() as collected
EdgePairs(keys) ==
  LET n == Len(keys)
      all == [k \in 1..(n * n) |-> <<((k - 1) \div n) + 1, ((k - 1) % n) + 1>>]
      Upper(p) == p[1] < p[2]
  IN  SelectSeq(all, Upper)

\* graph.build_edges(max_distance): each node with an edge maps to its
\* neighbours in the order they were pushed
build_edges(keys, max_dist) ==
  LET Joined(p) ==
        BigLeq(umi_hamming_distance(keys[p[1]], keys[p[2]]), max_dist)
      pairs == SelectSeq(EdgePairs(keys), Joined)
  IN  [u \in {keys[pairs[k][1]] : k \in DOMAIN pairs}
             \cup {keys[pairs[k][2]] : k \in DOMAIN pairs} |->
         LET Mine(p) == keys[p[1]] = u \/ keys[p[2]] = u
             mine == SelectSeq(pairs, Mine)
         IN  [k \in DOMAIN mine |->
                IF keys[mine[k][1]] = u THEN keys[mine[k][2]]
                ELSE keys[mine[k][1]]]]

\* self.edges.get(&current), none read as no neighbours
Neighbors(edges, current) ==
  IF current \in DOMAIN edges THEN edges[current] ELSE <<>>

\* the loop `while let Some(current) = stack.pop()`; st = [stack, visited,
\* component]
RECURSIVE Traverse(_, _)
Traverse(st, edges) ==
  IF st.stack = <<>> THEN st
  ELSE LET current == st.stack[Len(st.stack)]
           rest    == SubSeq(st.stack, 1, Len(st.stack) - 1)
       IN  IF current \in st.visited
             THEN Traverse([st EXCEPT !.stack = rest], edges)
           ELSE LET seen == st.visited \cup {current}
                    Unvisited(x) == x \notin seen
                IN  Traverse([stack |-> rest \o SelectSeq(
                                          Neighbors(edges, current), Unvisited),
                              visited |-> seen,
                              component |-> Append(st.component, current)],
                             edges)

\* the loop `for umi in self.nodes.keys()` from its n-th iteration
RECURSIVE ComponentsFrom(_, _, _, _, _)
ComponentsFrom(keys, edges, n, visited, components) ==
  IF n > Len(keys) THEN components
  ELSE IF keys[n] \in visited
    THEN ComponentsFrom(keys, edges, n + 1, visited, components)
  ELSE LET st == Traverse([stack |-> <<keys[n]>>, visited |-> visited,
                           component |-> <<>>], edges)
       IN  ComponentsFrom(keys, edges, n + 1, st.visited,
                          Append(components, st.component))

\* graph.connected_components()
connected_components(keys, edges) ==
  ComponentsFrom(keys, edges, 1, {}, <<>>)

\* group_umis.sort_by(|a, b| b.count.cmp(&a.count)): a stable sort, greatest
\* count first, equal counts left in the order they had
SortByCountDesc(list) ==
  LET Place(i) ==
        Cardinality({j \in DOMAIN list : BigLt(list[i].count, list[j].count)})
        + Cardinality({j \in 1..i : list[j].count = list[i].count})
  IN  [p \in DOMAIN list |-> list[CHOOSE i \in DOMAIN list : Place(i) = p]]

\* the loop `for umi in group_umis { group.add_member(umi) }` from its n-th
\* iteration: the group, or the panic of an overflow check
RECURSIVE AddMembers(_, _, _, _)
AddMembers(group, list, n, checks) ==
  IF n > Len(list) THEN [panic |-> FALSE, group |-> group]
  ELSE IF checks /\ AddOverflows(group.total_count, list[n].count)
    THEN [panic |-> TRUE]
  ELSE AddMembers(add_member(group, list[n]), list, n + 1, checks)

\* the body of `for component in components`
GroupOf(component, nodes, checks) ==
  LET group_umis == SortByCountDesc(
                      [k \in DOMAIN component |->
                         Umi(component[k], nodes[component[k]])])
  IN  AddMembers(UmiGroup(group_umis[1].sequence), group_umis, 1, checks)

\* UmiDeduplicator::deduplicate(&self, umis); keys: the order in which the
\* graph's node map is iterated
deduplicate(max_dist, list, keys, checks) ==
  IF list = <<>> THEN [panic |-> FALSE, groups |-> <<>>]
  ELSE LET graph == AddUmis(NoNodes, list, 1, checks)
       IN  IF graph.panic THEN [panic |-> TRUE]
           ELSE LET components ==
                      connected_components(keys, build_edges(keys, max_dist))
                    made == [k \in DOMAIN components |->
                               GroupOf(components[k], graph.nodes, checks)]
                IN  IF \E k \in DOMAIN made : made[k].panic
                      THEN [panic |-> TRUE]
                    ELSE [panic |-> FALSE,
                          groups |-> [k \in DOMAIN made |-> made[k].group]]

\* (mutant of deduplicate_exact) one group per input UMI, equal strings not
\* merged
deduplicate_exact_PerInput(list, keys, checks) ==
  [panic |-> FALSE,
   groups |-> [k \in DOMAIN list |->
                 add_member(UmiGroup(list[k].sequence), list[k])]]

\* UmiDeduplicator::deduplicate_exact(&self, umis); keys: the order in which
\* umi_counts.into_iter() yields the strings
deduplicate_exact(list, keys, checks) ==
  LET umi_counts == AddUmis(NoNodes, list, 1, checks)
  IN  IF umi_counts.panic THEN [panic |-> TRUE]
      ELSE [panic |-> FALSE,
            groups |-> [k \in DOMAIN keys |->
                          add_member(UmiGroup(keys[k]),
                                     Umi(keys[k], umi_counts.nodes[keys[k]]))]]

\* no call made yet
NotCalled == [panic |-> FALSE, called |-> FALSE]

(***************************************************************************)
(* Whitelist construction (barcode/whitelist.rs)                           *)
(***************************************************************************)
\* Ok(Whitelist { barcodes, barcode_len })
WhitelistOk(barcodes, barcode_len) ==
  [ok |-> TRUE, barcodes |-> barcodes, barcode_len |-> barcode_len]

\* Err(Error::Barcode(format!("Inconsistent barcode length: expected {},
\* got {}", expected, got))): the message in its four pieces, the numbers in
\* decimal
BarcodeError(expected, got) ==
  [ok |-> FALSE, error |-> "Barcode",
   message |-> <<"Inconsistent barcode length: expected ">>
                 \o Display(Big(expected)) \o <<", got ">>
                 \o Display(Big(got))]

\* the error of File::open on a path that cannot be opened
IoError == [ok |-> FALSE, error |-> "Io"]

\* the error of from_file on a line that is no UTF-8: `line?` returns the
\* io::Error as Error::Io
IoInvalidData == [ok |-> FALSE, error |-> "Io", kind |-> "InvalidData"]

\* (mutant of trim) only the leading whitespace removed
trim_StartOnly(line) ==
  LET cs   == chars(line)
      text == {k \in DOMAIN cs : cs[k] \notin Whitespace}
  IN  IF text = {} THEN <<>>
      ELSE collect(SubSeq(cs, CHOOSE k \in text : \A j \in text : k <= j,
                              Len(cs)))

\* str::trim: leading and trailing whitespace removed
trim(line) ==
  LET cs   == chars(line)
      text == {k \in DOMAIN cs : cs[k] \notin Whitespace}
  IN  IF text = {} THEN <<>>
      ELSE collect(SubSeq(cs, CHOOSE k \in text : \A j \in text : k <= j,
                              CHOOSE k \in text : \A j \in text : j <= k))

\* (mutant of FromFileLoop) a line of another length stored like the others
RECURSIVE FromFileLoop_NoCheck(_, _, _, _)
FromFileLoop_NoCheck(lines, n, barcodes, barcode_len) ==
  IF n > Len(lines) THEN WhitelistOk(barcodes, barcode_len)
  ELSE IF ~lines[n].ok THEN IoInvalidData
  ELSE LET barcode == trim(lines[n].line)
       IN  IF barcode = <<>> \/ barcode[1] = "#"
             THEN FromFileLoop_NoCheck(lines, n + 1, barcodes, barcode_len)
           ELSE FromFileLoop_NoCheck(lines, n + 1, barcodes \cup {barcode},
                  IF barcode_len = 0 THEN Len(barcode) ELSE barcode_len)

\* the loop `for line in reader.lines()` of from_file from its n-th item
RECURSIVE FromFileLoop(_, _, _, _)
FromFileLoop(lines, n, barcodes, barcode_len) ==
  IF n > Len(lines) THEN WhitelistOk(barcodes, barcode_len)
  ELSE IF ~lines[n].ok THEN IoInvalidData
  ELSE LET barcode == trim(lines[n].line)
       IN  IF barcode = <<>> \/ barcode[1] = "#"
             THEN FromFileLoop(lines, n + 1, barcodes, barcode_len)
           ELSE IF barcode_len = 0
             THEN FromFileLoop(lines, n + 1, barcodes \cup {barcode},
                               Len(barcode))
           ELSE IF Len(barcode) # barcode_len
             THEN BarcodeError(barcode_len, Len(barcode))
           ELSE FromFileLoop(lines, n + 1, barcodes \cup {barcode},
                             barcode_len)

\* Whitelist::from_file(path), the file at path holding bytes
from_file(bytes) == FromFileLoop(Lines(bytes), 1, {}, 0)

\* Whitelist::from_vec(barcodes)
from_vec(barcodes) ==
  IF barcodes = <<>> THEN WhitelistOk({}, 0)
  ELSE LET barcode_len == Len(barcodes[1])
           bad == {k \in DOMAIN barcodes : Len(barcodes[k]) # barcode_len}
       IN  IF bad # {}
             THEN LET k == CHOOSE k \in bad : \A j \in bad : k <= j
                  IN  BarcodeError(barcode_len, Len(barcodes[k]))
           ELSE WhitelistOk(Range(barcodes), barcode_len)

\* whitelist.contains(barcode)
contains(self, barcode) == barcode \in self.barcodes

\* whitelist.len()
len(self) == Cardinality(self.barcodes)

\* whitelist.barcode_len()
barcode_len(self) == self.barcode_len

\* no constructor called yet
NotLoaded == [call |-> "none", ok |-> FALSE, error |-> "None"]

(***************************************************************************)
(* Protocols: extraction of barcode and UMI from read 1 (protocols/)       *)
(***************************************************************************)
\* ReadStructure::new(barcode_start, barcode_len, umi_start, umi_len,
\* cdna_start)
ReadStructure(b_start, b_len, u_start, u_len, c_start) ==
  [barcode_start |-> b_start, barcode_len |-> b_len, umi_start |-> u_start,
   umi_len |-> u_len, cdna_start |-> c_start]

\* TenX3Prime::v3()
TenX3Prime_v3 ==
  [kit |-> "TenX3Prime", read_structure |-> ReadStructure(0, 16, 16, 12, 0),
   version |-> "v3"]

\* TenX3Prime::v2()
TenX3Prime_v2 ==
  [kit |-> "TenX3Prime", read_structure |-> ReadStructure(0, 16, 16, 10, 0),
   version |-> "v2"]

\* TenX5Prime::v2()
TenX5Prime_v2 ==
  [kit |-> "TenX5Prime", read_structure |-> ReadStructure(0, 16, 16, 10, 0),
   version |-> "v2"]

\* TenX5Prime::v1_1()
TenX5Prime_v1_1 ==
  [kit |-> "TenX5Prime", read_structure |-> ReadStructure(0, 16, 16, 10, 0),
   version |-> "v1.1"]

\* TenX3Prime::custom(read_structure)
TenX3Prime_custom(read_structure) ==
  [kit |-> "TenX3Prime", read_structure |-> read_structure,
   version |-> "custom"]

\* TenX5Prime::custom(read_structure)
TenX5Prime_custom(read_structure) ==
  [kit |-> "TenX5Prime", read_structure |-> read_structure,
   version |-> "custom"]

\* Err(Error::Protocol(format!("R1 too short: {} < {} required", seq.len(),
\* min_len))): the message in its pieces, the numbers in decimal
ProtocolError(seq_len, min_len) ==
  [ok |-> FALSE, error |-> "Protocol",
   message |-> <<"R1 too short: ">> \o Display(Big(seq_len)) \o <<" < ">>
                 \o Display(Big(min_len)) \o <<" required">>]

\* v[start..end] is in range (it panics otherwise)
InRange(v, start, end) == start <= end /\ end <= Len(v)

\* v[start..end].to_vec(), 0-based and end-exclusive
Slice(v, start, end) == SubSeq(v, start + 1, end)

\* Ok(ReadComponents { .. })
ReadComponents(barcode, umi, barcode_qual, umi_qual) ==
  [ok |-> TRUE, barcode |-> barcode, umi |-> umi, cdna |-> <<>>,
   barcode_qual |-> barcode_qual, umi_qual |-> umi_qual, cdna_qual |-> <<>>]

\* the panic of a slice index out of range
SlicePanic == [ok |-> FALSE, error |-> "panic"]

\* (mutant of extract_r1) a read of exactly the required length refused
extract_r1_Inclusive(self, seq, qual) ==
  LET rs == self.read_structure
      min_len == rs.barcode_start + rs.barcode_len + rs.umi_len
      barcode_end == rs.barcode_start + rs.barcode_len
      umi_end == rs.umi_start + rs.umi_len
  IN  IF Len(seq) <= min_len THEN ProtocolError(Len(seq), min_len)
      ELSE IF ~InRange(seq, rs.barcode_start, barcode_end)
              \/ ~InRange(seq, rs.umi_start, umi_end)
              \/ ~InRange(qual, rs.barcode_start, barcode_end)
              \/ ~InRange(qual, rs.umi_start, umi_end)
        THEN SlicePanic
      ELSE ReadComponents(Slice(seq, rs.barcode_start, barcode_end),
                          Slice(seq, rs.umi_start, umi_end),
                          Slice(qual, rs.barcode_start, barcode_end),
                          Slice(qual, rs.umi_start, umi_end))

\* <TenX3Prime as Protocol>::extract_r1 and <TenX5Prime as Protocol>::
\* extract_r1, which have the same body
extract_r1(self, seq, qual) ==
  LET rs == self.read_structure
      min_len == rs.barcode_start + rs.barcode_len + rs.umi_len
      barcode_end == rs.barcode_start + rs.barcode_len
      umi_end == rs.umi_start + rs.umi_len
  IN  IF Len(seq) < min_len THEN ProtocolError(Len(seq), min_len)
      ELSE IF ~InRange(seq, rs.barcode_start, barcode_end)
              \/ ~InRange(seq, rs.umi_start, umi_end)
              \/ ~InRange(qual, rs.barcode_start, barcode_end)
              \/ ~InRange(qual, rs.umi_start, umi_end)
        THEN SlicePanic
      ELSE ReadComponents(Slice(seq, rs.barcode_start, barcode_end),
                          Slice(seq, rs.umi_start, umi_end),
                          Slice(qual, rs.barcode_start, barcode_end),
                          Slice(qual, rs.umi_start, umi_end))

\* no protocol made yet
NoProtocol == [kit |-> "none"]

\* no extraction made yet
NotExtracted == [ok |-> FALSE, error |-> "None"]

(***************************************************************************)
(* The counter, the matrix and its file as a state machine                 *)
(***************************************************************************)
\* CountMatrix::new
EmptyMatrix ==
  [barcodes |-> <<>>, genes |-> <<>>, rows |-> <<>>, cols |-> <<>>,
   values |-> <<>>, n_rows |-> 0, n_cols |-> 0]

\* the values tried in the cells of a dense matrix
DenseValues == {Big(0), Big(10), U32Max}

\* dense inputs: up to one row per gene label, each row of any length up to
\* the number of cell labels
DenseRows == UNION {[1..n -> DenseValues] : n \in 0..Len(CellLabels)}
DenseData == UNION {[1..n -> DenseRows] : n \in 0..Len(GeneLabels)}

\* the f64 `num as f64 / den as f64`, den > 0: the f64 nearest num / den
Rat(num, den) == [num |-> num, den |-> den]

\* the f64 `a - b` of two f64: the f64 nearest the difference of the two
\* f64, which for b a quotient is a second rounding (1.0 - 7.0 / 10.0 is
\* 0.30000000000000004, not the f64 of 3 / 10)
Minus(a, b) == [left |-> a, right |-> b]

\* QcMetrics::default(): every u64 0, every f64 0.0
DefaultMetrics ==
  [total_reads |-> 0, valid_barcode_reads |-> 0, valid_umi_reads |-> 0,
   mapped_reads |-> 0, assigned_reads |-> 0, num_cells |-> 0,
   mean_reads_per_cell |-> Rat(0, 1), median_reads_per_cell |-> Rat(0, 1),
   mean_genes_per_cell |-> Rat(0, 1), median_genes_per_cell |-> Rat(0, 1),
   total_genes |-> 0, mean_umi_per_cell |-> Rat(0, 1),
   median_umi_per_cell |-> Rat(0, 1), sequencing_saturation |-> Rat(0, 1),
   fraction_reads_in_cells |-> Rat(0, 1)]

\* update_from_cells not called yet
NoCells == [reads |-> <<>>, genes |-> <<>>, umis |-> <<>>]

\* the commands before they run: Option values, no arguments, no item taken,
\* no file written, no corrector
None == [some |-> FALSE]
Some(x) == [some |-> TRUE, value |-> x]

NoArgs == [command |-> "none"]
NoItem == [kind |-> "None"]
NoOutputs == [mtx |-> NotWritten, barcodes |-> NotWritten, genes |-> NotWritten]
NoCorrector == [whitelist |-> {}, max_distance |-> Big(0),
                mismatch_index |-> EmptyIndex]

\* run has not returned
Running == [kind |-> "Running"]

\* no corrector or matcher constructed yet; a new GeneCounter; no matrix
Init ==
  /\ whitelist = {}
  /\ max_distance = Big(0)
  /\ mismatch_index = EmptyIndex
  /\ query = <<>>
  /\ result = NoResult
  /\ mstage = "new"
  /\ counter = NewCounter
  /\ cstage = "counting"
  /\ calls = <<>>
  /\ matrix = EmptyMatrix
  /\ origin = [kind |-> "none"]
  /\ file = <<>>
  /\ parsed = [done |-> FALSE]
  /\ barcodes_tsv = NotWritten
  /\ genes_tsv = NotWritten
  /\ umis = <<>>
  /\ dedup_distance = Big(0)
  /\ groups = NotCalled
  /\ exact_groups = NotCalled
  /\ overflow_checks = FALSE
  /\ ustage = "new"
  /\ wl_file = <<>>
  /\ wl_vec = <<>>
  /\ loaded = NotLoaded
  /\ protocol = NoProtocol
  /\ read = [seq |-> <<>>, qual |-> <<>>]
  /\ extracted = NotExtracted
  /\ py_inner = NewCounter
  /\ py_calls = <<>>
  /\ py_built = <<>>
  /\ py_observed = <<>>
  /\ r1_reader = <<>>
  /\ r2_reader = <<>>
  /\ r1_pos = 0
  /\ r2_pos = 0
  /\ yielded = <<>>
  /\ pstage = "closed"
  /\ cmd = "none"
  /\ cmd_args = NoArgs
  /\ pulled = 0
  /\ record = NoItem
  /\ total_reads = 0
  /\ assigned_reads = 0
  /\ cmd_counter = NewCounter
  /\ cmd_matrix = EmptyMatrix
  /\ outputs = NoOutputs
  /\ cmd_corrector = NoCorrector
  /\ valid_barcode = 0
  /\ corrected_barcode = 0
  /\ outcomes = <<>>
  /\ cmd_exit = Running
  /\ metrics = DefaultMetrics
  /\ warnings = <<>>
  /\ cell_args = NoCells
  /\ qstage = "new"

\* a call of add_count: where the sum passes u32::MAX, a build with overflow
\* checks panics and leaves the counter as it was, a build without them
\* stores the wrapped sum
Call(op, bc, gene, count) ==
  /\ calls' = Append(calls, [op |-> op, barcode |-> bc, gene |-> gene,
                              count |-> count])
  /\ \/ /\ counter' = add_count(counter, bc, gene, count)
        /\ cstage' = cstage
     \/ /\ ~FitsU32(CountSum(counter, bc, gene, count))
        /\ counter' = counter
        /\ cstage' = "panicked"
  /\ UNCHANGED <<matrix, origin, file, parsed, barcodes_tsv, genes_tsv>>
  /\ UNCHANGED notCountVars

\* counter.add_count(bc, gene, count)
AddCount ==
  /\ cstage = "counting"
  /\ origin.kind = "none"
  /\ Len(calls) < MaxCalls
  /\ \E bc \in Range(CellLabels), gene \in Range(GeneLabels),
        count \in CountArgs : Call("add_count", bc, gene, count)

\* counter.increment(bc, gene): add_count(bc, gene, 1)
Increment ==
  /\ cstage = "counting"
  /\ origin.kind = "none"
  /\ Len(calls) < MaxCalls
  /\ \E bc \in Range(CellLabels), gene \in Range(GeneLabels) :
        Call("increment", bc, gene, Big(1))

\* counter.build()
Build ==
  /\ cstage = "counting"
  /\ origin.kind = "none"
  /\ \E order \in Orders(DOMAIN counter.counts) :
       matrix' = build(counter, order)
  /\ cstage' = "consumed"
  /\ origin' = [kind |-> "build"]
  /\ UNCHANGED <<counter, calls, file, parsed, barcodes_tsv, genes_tsv>>
  /\ UNCHANGED notCountVars

\* CountMatrix::from_dense(barcodes, genes, data), for a program that makes
\* its matrix this way and uses no counter
FromDense ==
  /\ cstage = "counting"
  /\ origin.kind = "none"
  /\ calls = <<>>
  /\ \E nb \in 0..Len(CellLabels), ng \in 0..Len(GeneLabels),
        data \in DenseData :
       /\ matrix' = from_dense(SubSeq(CellLabels, 1, nb),
                               SubSeq(GeneLabels, 1, ng), data)
       /\ origin' = [kind |-> "dense", data |-> data]
  /\ UNCHANGED <<counter, cstage, calls, file, parsed, barcodes_tsv,
                 genes_tsv>>
  /\ UNCHANGED notCountVars

\* the output step of the count command: matrix.write_mtx(&mtx_path),
\* matrix.write_barcodes(&barcodes_path), matrix.write_genes(&genes_path)
WriteOutput ==
  /\ origin.kind # "none"
  /\ file = <<>>
  /\ file' = write_mtx(matrix)
  /\ barcodes_tsv' = write_barcodes(matrix)
  /\ genes_tsv' = write_genes(matrix)
  /\ UNCHANGED <<counter, cstage, calls, matrix, origin, parsed>>
  /\ UNCHANGED notCountVars

\* the qc command reading matrix.mtx
ReadMtx ==
  /\ file # <<>>
  /\ ~parsed.done
  /\ parsed' = read_mtx(file)
  /\ UNCHANGED <<counter, cstage, calls, matrix, origin, file, barcodes_tsv,
                 genes_tsv>>
  /\ UNCHANGED notCountVars

CountNext ==
  AddCount \/ Increment \/ Build \/ FromDense \/ WriteOutput \/ ReadMtx

(***************************************************************************)
(* The deduplicator as a state machine                                     *)
(***************************************************************************)
\* UMI strings: two lengths, the longer ones one or two mismatches apart
UmiSequences ==
  {<<"A", "A">>, <<"A", "C">>, <<"C", "C">>, <<"A">>}

\* the input UMIs: each string read once or twice, and one with a count
\* that takes a sum past u32::MAX
UmiInputs ==
  {Umi(sequence, count) : sequence \in UmiSequences, count \in {Big(1), Big(2)}}
    \cup {Umi(<<"A", "A">>, U32Max)}

\* distance thresholds
UmiDistances == {Big(0), Big(1), U32Max}

\* the strings of a list of Umi
SequencesOf(list) == {list[k].sequence : k \in DOMAIN list}

\* UmiDeduplicator::new(max_distance)
DedupNew ==
  /\ ustage = "new"
  /\ \E d \in UmiDistances : dedup_distance' = d
  /\ \E checks \in BOOLEAN : overflow_checks' = checks
  /\ ustage' = "dedup"
  /\ UNCHANGED <<umis, groups, exact_groups>>
  /\ UNCHANGED notUmiVars

\* the caller collects one more Umi into the slice it will pass; it then
\* makes one of the two calls
PushUmi ==
  /\ ustage = "dedup"
  /\ Len(umis) < MaxUmis
  /\ groups = NotCalled /\ exact_groups = NotCalled
  /\ \E umi \in UmiInputs : umis' = Append(umis, umi)
  /\ UNCHANGED <<dedup_distance, groups, exact_groups, overflow_checks,
                 ustage>>
  /\ UNCHANGED notUmiVars

\* dedup.deduplicate(&umis)
Deduplicate ==
  /\ ustage = "dedup"
  /\ groups = NotCalled /\ exact_groups = NotCalled
  /\ \E keys \in Orders(SequencesOf(umis)) :
       groups' = deduplicate(dedup_distance, umis, keys, overflow_checks)
  /\ UNCHANGED <<umis, dedup_distance, exact_groups, overflow_checks,
                 ustage>>
  /\ UNCHANGED notUmiVars

\* dedup.deduplicate_exact(&umis)
DeduplicateExact ==
  /\ ustage = "dedup"
  /\ groups = NotCalled /\ exact_groups = NotCalled
  /\ \E keys \in Orders(SequencesOf(umis)) :
       exact_groups' = deduplicate_exact(umis, keys, overflow_checks)
  /\ UNCHANGED <<umis, dedup_distance, groups, overflow_checks, ustage>>
  /\ UNCHANGED notUmiVars

UmiNext == DedupNew \/ PushUmi \/ Deduplicate \/ DeduplicateExact

(***************************************************************************)
(* Whitelist construction as a state machine                               *)
(***************************************************************************)
\* the bytes a whitelist file is made of; 0xFF occurs in no UTF-8 text
FileBytes == {"A", "C", "#", " ", "\n", "0xFF"}

\* the strings passed to from_vec: up to two characters, untrimmed
VecBarcodes ==
  UNION {Strings({"A", "C", "#"}, n) : n \in 0..2}

\* one more byte is written to the whitelist file
WriteByte ==
  /\ loaded = NotLoaded
  /\ wl_vec = <<>>
  /\ Len(wl_file) < MaxFileLen
  /\ \E b \in FileBytes : wl_file' = Append(wl_file, b)
  /\ UNCHANGED <<wl_vec, loaded>>
  /\ UNCHANGED notWlVars

\* one more barcode is pushed on the vector for from_vec
PushBarcode ==
  /\ loaded = NotLoaded
  /\ wl_file = <<>>
  /\ Len(wl_vec) < MaxVec
  /\ \E bc \in VecBarcodes : wl_vec' = Append(wl_vec, bc)
  /\ UNCHANGED <<wl_file, loaded>>
  /\ UNCHANGED notWlVars

\* Whitelist::from_file(path) on the file written
FromFile ==
  /\ loaded = NotLoaded
  /\ wl_vec = <<>>
  /\ loaded' = [call |-> "from_file"] @@ from_file(wl_file)
  /\ UNCHANGED <<wl_file, wl_vec>>
  /\ UNCHANGED notWlVars

\* Whitelist::from_file(path) on a path that cannot be opened
FromFileMissing ==
  /\ loaded = NotLoaded
  /\ wl_vec = <<>> /\ wl_file = <<>>
  /\ loaded' = [call |-> "from_file_missing"] @@ IoError
  /\ UNCHANGED <<wl_file, wl_vec>>
  /\ UNCHANGED notWlVars

\* Whitelist::from_vec(barcodes)
FromVec ==
  /\ loaded = NotLoaded
  /\ wl_file = <<>>
  /\ loaded' = [call |-> "from_vec"] @@ from_vec(wl_vec)
  /\ UNCHANGED <<wl_file, wl_vec>>
  /\ UNCHANGED notWlVars

WlNext == WriteByte \/ PushBarcode \/ FromFile \/ FromFileMissing \/ FromVec

(***************************************************************************)
(* Extraction as a state machine                                           *)
(***************************************************************************)
\* the presets
Presets == {TenX3Prime_v3, TenX3Prime_v2, TenX5Prime_v2, TenX5Prime_v1_1}

\* byte vectors of length n: all `fill` but for at most one `mark`
Marked(n, fill, mark) ==
  {[i \in 1..n |-> IF i = p THEN mark ELSE fill] : p \in 0..n}

\* the read structures passed to custom: barcode then UMI without a gap, the
\* UMI before the barcode, and the UMI three bases after the barcode
CustomStructures ==
  {ReadStructure(0, 2, 2, 2, 4), ReadStructure(1, 2, 0, 1, 3),
   ReadStructure(0, 2, 5, 2, 7)}

\* the protocols made from the custom read structures
Customs ==
  {TenX3Prime_custom(rs) : rs \in CustomStructures}
    \cup {TenX5Prime_custom(rs) : rs \in CustomStructures}

\* TenX3Prime::v3() / v2() / custom(rs), TenX5Prime::v2() / v1_1() /
\* custom(rs)
ProtocolNew ==
  /\ protocol = NoProtocol
  /\ \E made \in Presets \cup Customs : protocol' = made
  /\ UNCHANGED <<read, extracted>>
  /\ UNCHANGED notProtoVars

\* protocol.extract_r1(seq, qual); qual as long as seq, or one byte short
ExtractR1 ==
  /\ protocol # NoProtocol
  /\ extracted = NotExtracted
  /\ \E n \in 0..MaxReadLen, short \in {0, 1} :
       \E seq \in Marked(n, "A", "C"),
          qual \in Marked(IF n = 0 THEN 0 ELSE n - short, "I", "#") :
         /\ read' = [seq |-> seq, qual |-> qual]
         /\ extracted' = extract_r1(protocol, seq, qual)
  /\ UNCHANGED protocol
  /\ UNCHANGED notProtoVars

ProtoNext == ProtocolNew \/ ExtractR1

(***************************************************************************)
(* The Python binding of the counter (sparc-py/src/matrix.rs)              *)
(***************************************************************************)
\* the count arguments tried for PyGeneCounter.add_count
PyCountArgs == {Big(2)}

\* the number of calls made on the Python counter, over all its builds
RECURSIVE PyCallsMade(_)
PyCallsMade(n) ==
  IF n = 0 THEN Len(py_calls) ELSE Len(py_observed[n]) + PyCallsMade(n - 1)

num_cells(self) == Len(self.barcodes)

num_genes(self) == Len(self.genes)

\* (mutant of py_build) the matrix built from a copy, the counter kept
py_build_Keep(inner, order) ==
  [inner |-> inner, matrix |-> build(inner, order)]

\* PyGeneCounter::build: std::mem::take(&mut self.inner) leaves
\* GeneCounter::default() behind, and the counter taken is built
py_build(inner, order) ==
  [inner |-> NewCounter, matrix |-> build(inner, order)]

\* a call of the binding's add_count or increment
PyCall(op, bc, gene, count) ==
  /\ py_inner' = add_count(py_inner, bc, gene, count)
  /\ py_calls' = Append(py_calls, [op |-> op, barcode |-> bc, gene |-> gene,
                                    count |-> count])
  /\ UNCHANGED <<py_built, py_observed>>
  /\ UNCHANGED notPyVars

\* counter.add_count(barcode, gene, count)
PyAddCount ==
  /\ PyCallsMade(Len(py_observed)) < MaxPyCalls
  /\ \E bc \in Range(CellLabels), gene \in Range(GeneLabels),
        count \in PyCountArgs : PyCall("add_count", bc, gene, count)

\* counter.increment(barcode, gene)
PyIncrement ==
  /\ PyCallsMade(Len(py_observed)) < MaxPyCalls
  /\ \E bc \in Range(CellLabels), gene \in Range(GeneLabels) :
        PyCall("increment", bc, gene, Big(1))

\* counter.build()
PyBuild ==
  /\ Len(py_built) < MaxBuilds
  /\ \E order \in Orders(DOMAIN py_inner.counts) :
       LET out == py_build(py_inner, order)
       IN  /\ py_inner' = out.inner
           /\ py_built' = Append(py_built, out.matrix)
  /\ py_observed' = Append(py_observed, py_calls)
  /\ py_calls' = <<>>
  /\ UNCHANGED notPyVars

PyNext == PyAddCount \/ PyIncrement \/ PyBuild

(***************************************************************************)
(* Paired FASTQ parser (fastq/parser.rs)                                   *)
(***************************************************************************)
\* FastqRecord::new(id, seq, qual)
FastqRecord(id, seq, qual) == [id |-> id, seq |-> seq, qual |-> qual]

\* Error::FastqParse(message)
FastqParseError(message) ==
  [kind |-> "Err", error |-> "FastqParse", message |-> message]

\* the i-th item of the reader of a file: a record, or a parse error
ReaderRecord(mate, i) ==
  [ok |-> TRUE, id |-> <<mate, i>>, seq |-> <<"A", "C">>,
   qual |-> <<"I", "I">>]
ReaderError(mate, i) == [ok |-> FALSE, cause |-> <<mate, i>>]

\* what a reader can yield: up to MaxRecords items, each a record or an error
Readers(mate) ==
  UNION {{[i \in 1..n |-> IF i \in bad THEN ReaderError(mate, i)
                          ELSE ReaderRecord(mate, i)] : bad \in SUBSET (1..n)}
         : n \in 0..MaxRecords}

\* FastqParser::next: the reader's next item, a record made into a
\* FastqRecord and an error into Error::FastqParse("Failed to read record:
\* ..."); None once the reader is exhausted
fastq_next(reader, pos) ==
  IF pos >= Len(reader) THEN [kind |-> "None"]
  ELSE LET item == reader[pos + 1]
       IN  IF item.ok
             THEN [kind |-> "Ok",
                   record |-> FastqRecord(item.id, item.seq, item.qual)]
             ELSE FastqParseError(<<"Failed to read record: ", item.cause>>)

\* (mutant of paired_next) the iteration ended when either input ends
paired_next_Zip(a, b) ==
  IF a.kind = "Ok" /\ b.kind = "Ok"
    THEN [kind |-> "Ok", r1 |-> a.record, r2 |-> b.record]
  ELSE IF a.kind = "Err" THEN a
  ELSE IF b.kind = "Err" THEN b
  ELSE [kind |-> "None"]

\* the match of PairedFastqParser::next on the two items taken
paired_next(a, b) ==
  IF a.kind = "Ok" /\ b.kind = "Ok"
    THEN [kind |-> "Ok", r1 |-> a.record, r2 |-> b.record]
  ELSE IF a.kind = "Err" THEN a
  ELSE IF b.kind = "Err" THEN b
  ELSE IF a.kind = "None" /\ b.kind = "None" THEN [kind |-> "None"]
  ELSE FastqParseError("Paired FASTQ files have different lengths")

\* PairedFastqParser::open(r1_path, r2_path)
PairedOpen ==
  /\ pstage = "closed"
  /\ \E a \in Readers("R1"), b \in Readers("R2") :
       /\ r1_reader' = a
       /\ r2_reader' = b
  /\ pstage' = "open"
  /\ UNCHANGED <<r1_pos, r2_pos, yielded>>
  /\ UNCHANGED notPairedVars

\* PairedFastqParser::next: both parsers are advanced, then matched
PairedNext ==
  /\ pstage = "open"
  /\ Len(yielded) < MaxRecords + 2
  /\ yielded' = Append(yielded, paired_next(fastq_next(r1_reader, r1_pos),
                                            fastq_next(r2_reader, r2_pos)))
  /\ r1_pos' = IF r1_pos < Len(r1_reader) THEN r1_pos + 1 ELSE r1_pos
  /\ r2_pos' = IF r2_pos < Len(r2_reader) THEN r2_pos + 1 ELSE r2_pos
  /\ UNCHANGED <<r1_reader, r2_reader, pstage>>
  /\ UNCHANGED notPairedVars

PairedNextStep == PairedOpen \/ PairedNext

(***************************************************************************)
(* The count command (sparc-cli/src/commands/count.rs) over the records of *)
(* a BamParser (bam/parser.rs)                                             *)
(***************************************************************************)
\* run returned Ok(())
ExitOk == [kind |-> "Ok"]
\* run returned the error
ExitErr(e) == [kind |-> "Err", error |-> e]

\* the fields of a BamRecord the count loop reads
BamRecord(is_mapped, mapq, cell_barcode, gene_name, gene_id) ==
  [is_mapped |-> is_mapped, mapq |-> mapq, cell_barcode |-> cell_barcode,
   gene_name |-> gene_name, gene_id |-> gene_id]

\* the mapping qualities and the --min-mapq values tried (u8)
MapQs == {29, 30}
MinMapQs == {0, 30}

\* the --format values tried
Formats == {"mtx", "h5ad", "csv"}

\* the records a BAM file can hold
BamRecords ==
  {BamRecord(m, q, cb, gn, gx) :
     m \in BOOLEAN, q \in MapQs,
     cb \in {None} \cup {Some(c) : c \in Range(CellLabels)},
     gn \in {None, Some(GeneLabels[1])},
     gx \in {None, Some(GeneLabels[2])}}

\* what self.reader.read(&mut record) can return while records remain
BamReads ==
  {[kind |-> "Ok", record |-> r] : r \in BamRecords}
    \cup {[kind |-> "Err", message |-> "truncated file"]}

\* Error::BamParse(message)
BamParseError(message) ==
  [kind |-> "Err", error |-> "BamParse", message |-> message]

\* BamParser::next on a read that returned Ok(true) or Err(e)
bam_next(rd) ==
  IF rd.kind = "Ok" THEN [kind |-> "Ok", record |-> rd.record]
  ELSE BamParseError(rd.message)

\* (mutant of Propagated) the error dropped and the loop continued
Propagated_Ignored(item) == Running

\* let record = result?: an Err is returned from run at once
Propagated(item) == IF item.kind = "Err" THEN ExitErr(item) ELSE Running

\* the (barcode, gene) the loop counts for a record, if any
Labelled(rec) ==
  IF rec.cell_barcode.some /\ rec.gene_name.some
    THEN Some(<<rec.cell_barcode.value, rec.gene_name.value>>)
  ELSE IF rec.cell_barcode.some /\ rec.gene_id.some
    THEN Some(<<rec.cell_barcode.value, rec.gene_id.value>>)
  ELSE None

\* (mutant of count_record) the mapping quality compared with <=
count_record_Strict(st, rec, min_mapq) ==
  LET pair == Labelled(rec)
  IN  IF ~rec.is_mapped \/ rec.mapq <= min_mapq \/ ~pair.some
        THEN [st EXCEPT !.total_reads = @ + 1]
      ELSE [total_reads |-> st.total_reads + 1,
            assigned_reads |-> st.assigned_reads + 1,
            counter |-> increment(st.counter, pair.value[1], pair.value[2])]

\* the body of the record loop for a record; st: total_reads,
\* assigned_reads and the counter
count_record(st, rec, min_mapq) ==
  LET pair == Labelled(rec)
  IN  IF ~rec.is_mapped \/ rec.mapq < min_mapq \/ ~pair.some
        THEN [st EXCEPT !.total_reads = @ + 1]
      ELSE [total_reads |-> st.total_reads + 1,
            assigned_reads |-> st.assigned_reads + 1,
            counter |-> increment(st.counter, pair.value[1], pair.value[2])]

\* count::run up to the loop: the BAM file opened
CountRun ==
  /\ cmd = "none"
  /\ cmd' = "count"
  /\ \E q \in MinMapQs, f \in Formats :
       cmd_args' = [command |-> "count", min_mapq |-> q, format |-> f]
  /\ UNCHANGED <<pulled, record, total_reads, assigned_reads, cmd_counter,
                 cmd_matrix, outputs, cmd_corrector, valid_barcode,
                 corrected_barcode, outcomes, cmd_exit>>
  /\ UNCHANGED notCliVars

\* one turn of the loop: the next item of the parser, result?, the body
CountRecord ==
  /\ cmd = "count"
  /\ cmd_exit = Running
  /\ pulled < MaxStream
  /\ \E rd \in BamReads :
       LET item == bam_next(rd)
       IN  /\ record' = item
           /\ pulled' = pulled + 1
           /\ cmd_exit' = Propagated(item)
           /\ IF item.kind = "Err"
                THEN UNCHANGED <<total_reads, assigned_reads, cmd_counter>>
                ELSE LET st == count_record(
                                 [total_reads |-> total_reads,
                                  assigned_reads |-> assigned_reads,
                                  counter |-> cmd_counter],
                                 item.record, cmd_args.min_mapq)
                     IN  /\ total_reads' = st.total_reads
                         /\ assigned_reads' = st.assigned_reads
                         /\ cmd_counter' = st.counter
  /\ UNCHANGED <<cmd, cmd_args, cmd_matrix, outputs, cmd_corrector,
                 valid_barcode, corrected_barcode, outcomes>>
  /\ UNCHANGED notCliVars

\* the parser returns None: the matrix is built and, for the format mtx,
\* written; any other format is an error
CountFinish ==
  /\ cmd = "count"
  /\ cmd_exit = Running
  /\ \E order \in Orders(DOMAIN cmd_counter.counts) :
       LET m == build(cmd_counter, order)
       IN  /\ cmd_matrix' = m
           /\ IF cmd_args.format = "mtx"
                THEN /\ outputs' = [mtx |-> write_mtx(m),
                                    barcodes |-> write_barcodes(m),
                                    genes |-> write_genes(m)]
                     /\ cmd_exit' = ExitOk
                ELSE /\ outputs' = outputs
                     /\ cmd_exit' =
                          ExitErr(IF cmd_args.format = "h5ad"
                                    THEN "H5AD format not yet implemented"
                                    ELSE <<"Unknown format: ",
                                           cmd_args.format>>)
  /\ UNCHANGED <<cmd, cmd_args, pulled, record, total_reads, assigned_reads,
                 cmd_counter, cmd_corrector, valid_barcode,
                 corrected_barcode, outcomes>>
  /\ UNCHANGED notCliVars

(***************************************************************************)
(* The extract command (sparc-cli/src/commands/extract.rs) over the        *)
(* records of a FastqParser                                                *)
(***************************************************************************)
\* n times the byte c
Rep(c, n) == [i \in 1..n |-> c]

\* the barcode length of the presets
PresetBarcodeLen == 16

\* whitelist barcodes of the commands: all A, and all A but a final C
CmdBarcode == Rep("A", PresetBarcodeLen)
CmdBarcode2 == [CmdBarcode EXCEPT ![PresetBarcodeLen] = "C"]

\* the whitelists loaded by Whitelist::from_file
CmdWhitelists == {{CmdBarcode}, {CmdBarcode, CmdBarcode2}}

\* the --max-mismatch values tried
MaxMismatches == {Big(0), Big(1), Big(2)}

\* the --min-barcode-qual values tried (u8)
MinBarcodeQuals == {38, 40}

\* the --protocol values tried, the last one unknown
ProtocolNames == {"10x-3prime-v3", "10x-3prime-v2", "10x-5prime-v2", "smart-seq"}

\* the match on args.protocol
ProtocolNamed(name) ==
  CASE name = "10x-3prime-v3" -> TenX3Prime_v3
    [] name = "10x-3prime-v2" -> TenX3Prime_v2
    [] name = "10x-5prime-v2" -> TenX5Prime_v2
    [] OTHER -> NoProtocol

\* the barcodes read: on the whitelist, one or two mismatches away from its
\* first entry, with an N, and with a byte that is no UTF-8
ReadBarcodes ==
  {CmdBarcode, CmdBarcode2,
   [CmdBarcode EXCEPT ![1] = "G"],
   [CmdBarcode EXCEPT ![1] = "G", ![2] = "G"],
   [CmdBarcode EXCEPT ![3] = "N"],
   [CmdBarcode EXCEPT ![1] = "0xFF"]}

\* the quality strings of the barcode region: Q40 throughout, Q2 throughout,
\* and Q40 but for one Q0 (mean 37.5)
BarcodeQuals ==
  {Rep("I", PresetBarcodeLen), Rep("#", PresetBarcodeLen),
   [Rep("I", PresetBarcodeLen) EXCEPT ![PresetBarcodeLen] = "!"]}

\* a record of an R1 file: a barcode, then a UMI of u bases; bq: the
\* quality string of the barcode, that of the UMI being Q40
R1Record(bc, u, bq) ==
  [ok |-> TRUE, id |-> "read", seq |-> bc \o Rep("C", u),
   qual |-> bq \o Rep("I", u)]

\* the records of an R1 file, their quality strings as long as their
\* sequences and Phred+33: every barcode with a UMI of 12 bases at Q40; the
\* whitelisted and the one-mismatch barcode at the lower qualities; the
\* whitelisted barcode with a UMI of 10 bases; a read of 10 bases
R1Records ==
  {R1Record(bc, 12, Rep("I", PresetBarcodeLen)) : bc \in ReadBarcodes}
  \cup {R1Record(bc, 12, bq) :
          bc \in {CmdBarcode, [CmdBarcode EXCEPT ![1] = "G"]},
          bq \in BarcodeQuals}
  \cup {R1Record(CmdBarcode, 10, Rep("I", PresetBarcodeLen))}
  \cup {[ok |-> TRUE, id |-> "read", seq |-> Rep("A", 10),
         qual |-> Rep("I", 10)]}

\* what the reader of the R1 file can yield while items remain
R1Reads == R1Records \cup {ReaderError("R1", 0)}

\* ReadComponents::barcode_str
barcode_str(self) == from_utf8_lossy(self.barcode)

\* the value of a quality byte
ByteValue(c) ==
  CASE c = "I" -> 73
    [] c = "#" -> 35
    [] c = "!" -> 33
    [] c = " " -> 32

\* q - 33 on u8 in a build without overflow checks
Sub33(q) == (q + 256 - 33) % 256

\* the sum of (q - 33) over the first n quality bytes
RECURSIVE QualSum(_, _)
QualSum(qual, n) ==
  IF n = 0 THEN 0 ELSE QualSum(qual, n - 1) + Sub33(ByteValue(qual[n]))

\* (mutant of barcode_quality_ok) a mean equal to the threshold refused
barcode_quality_ok_Above(self, min_qual, checks) ==
  IF self.barcode_qual = <<>> THEN [panic |-> FALSE, ok |-> FALSE]
  ELSE IF checks /\ \E i \in DOMAIN self.barcode_qual :
                      ByteValue(self.barcode_qual[i]) < 33
    THEN [panic |-> TRUE, ok |-> FALSE]
  ELSE [panic |-> FALSE,
        ok |-> QualSum(self.barcode_qual, Len(self.barcode_qual))
                 > min_qual * Len(self.barcode_qual)]

\* ReadComponents::barcode_quality_ok: the mean of (q - 33) as f64 compared
\* with min_qual; the sums and quotients that arise are exact in f64, so
\* mean >= min_qual is sum >= min_qual * len.  q - 33 on a byte below 33
\* panics where the build checks overflow and wraps where it does not.
barcode_quality_ok(self, min_qual, checks) ==
  IF self.barcode_qual = <<>> THEN [panic |-> FALSE, ok |-> FALSE]
  ELSE IF checks /\ \E i \in DOMAIN self.barcode_qual :
                      ByteValue(self.barcode_qual[i]) < 33
    THEN [panic |-> TRUE, ok |-> FALSE]
  ELSE [panic |-> FALSE,
        ok |-> QualSum(self.barcode_qual, Len(self.barcode_qual))
                 >= min_qual * Len(self.barcode_qual)]

\* BarcodeCorrector::new(whitelist, max_distance); wl: the whitelist in the
\* order whitelist.iter() yields it
corrector_new(W, wl, d) ==
  [whitelist |-> W, max_distance |-> d,
   mismatch_index |-> IF BigLeq(Big(1), d) THEN build_mismatch_index(wl)
                      ELSE EmptyIndex]

\* some quality byte is below 33, where q - 33 overflows
BelowOffset(qual) == \E i \in DOMAIN qual : ByteValue(qual[i]) < 33

\* the body of the record loop for a record; st: the three totals and what
\* became of the record
extract_record(st, rec, proto, corrector, wl, min_qual, checks) ==
  LET counted == [st EXCEPT !.total_reads = @ + 1]
      comp    == extract_r1(proto, rec.seq, rec.qual)
  IN  IF ~comp.ok
        THEN IF comp.error = "panic"
               THEN [counted EXCEPT !.outcome = [kind |-> "panic"]]
               ELSE [counted EXCEPT !.outcome = [kind |-> "short"]]
      ELSE LET q == barcode_quality_ok(comp, min_qual, checks)
           IN  IF q.panic
                 THEN [counted EXCEPT !.outcome = [kind |-> "panic"]]
               ELSE IF ~q.ok
                 THEN [counted EXCEPT !.outcome = [kind |-> "lowqual"]]
               ELSE LET m == match_barcode(corrector.whitelist, wl,
                                           corrector.max_distance,
                                           corrector.mismatch_index,
                                           barcode_str(comp))
                    IN  [total_reads |-> counted.total_reads,
                         valid_barcode |->
                           IF m.kind \in {"Exact", "Corrected"}
                             THEN st.valid_barcode + 1 ELSE st.valid_barcode,
                         corrected_barcode |->
                           IF m.kind = "Corrected"
                             THEN st.corrected_barcode + 1
                             ELSE st.corrected_barcode,
                         outcome |-> m]

\* the process aborted by a panic
Panicked == [kind |-> "panic"]

\* no record processed yet
NoOutcomes ==
  [k \in {"short", "lowqual", "NoMatch", "Exact", "Corrected"} |-> 0]

\* extract::run up to the loop: the whitelist loaded, the corrector built,
\* the protocol chosen (an unknown name is an error), the R1 file opened
ExtractRun ==
  /\ cmd = "none"
  /\ cmd' = "extract"
  /\ \E W \in CmdWhitelists, d \in MaxMismatches, q \in MinBarcodeQuals,
        name \in ProtocolNames :
       /\ \E wl \in Orders(W) : cmd_corrector' = corrector_new(W, wl, d)
       /\ cmd_args' = [command |-> "extract", protocol |-> name,
                       max_mismatch |-> d, min_barcode_qual |-> q]
       /\ cmd_exit' = IF ProtocolNamed(name) = NoProtocol
                        THEN ExitErr(<<"Unknown protocol: ", name>>)
                        ELSE Running
  /\ outcomes' = NoOutcomes
  /\ UNCHANGED <<pulled, record, total_reads, assigned_reads, cmd_counter,
                 cmd_matrix, outputs, valid_barcode, corrected_barcode>>
  /\ UNCHANGED notCliVars

\* one turn of the loop: the next item of the parser, result?, the body
ExtractRecord ==
  /\ cmd = "extract"
  /\ cmd_exit = Running
  /\ pulled < MaxStream
  /\ \E rd \in R1Reads :
       LET item == fastq_next(<<rd>>, 0)
       IN  /\ record' = item
           /\ pulled' = pulled + 1
           /\ IF item.kind = "Err"
                THEN /\ cmd_exit' = Propagated(item)
                     /\ UNCHANGED <<total_reads, valid_barcode,
                                    corrected_barcode, outcomes>>
                ELSE \E wl \in Orders(cmd_corrector.whitelist),
                        checks \in IF BelowOffset(item.record.qual)
                                     THEN BOOLEAN ELSE {FALSE} :
                       LET st == extract_record(
                                   [total_reads |-> total_reads,
                                    valid_barcode |-> valid_barcode,
                                    corrected_barcode |-> corrected_barcode,
                                    outcome |-> NoItem],
                                   item.record,
                                   ProtocolNamed(cmd_args.protocol),
                                   cmd_corrector, wl,
                                   cmd_args.min_barcode_qual, checks)
                       IN  /\ total_reads' = st.total_reads
                           /\ valid_barcode' = st.valid_barcode
                           /\ corrected_barcode' = st.corrected_barcode
                           /\ IF st.outcome.kind = "panic"
                                THEN /\ cmd_exit' = Panicked
                                     /\ outcomes' = outcomes
                                ELSE /\ cmd_exit' = Propagated(item)
                                     /\ outcomes' =
                                          [outcomes EXCEPT
                                             ![st.outcome.kind] = @ + 1]
  /\ UNCHANGED <<cmd, cmd_args, assigned_reads, cmd_counter, cmd_matrix,
                 outputs, cmd_corrector>>
  /\ UNCHANGED notCliVars

\* the parser returns None: the summary is printed and run returns Ok(())
ExtractFinish ==
  /\ cmd = "extract"
  /\ cmd_exit = Running
  /\ cmd_exit' = ExitOk
  /\ UNCHANGED <<cmd, cmd_args, pulled, record, total_reads, assigned_reads,
                 cmd_counter, cmd_matrix, outputs, cmd_corrector,
                 valid_barcode, corrected_barcode, outcomes>>
  /\ UNCHANGED notCliVars

CliNext ==
  \/ CountRun \/ CountRecord \/ CountFinish
  \/ ExtractRun \/ ExtractRecord \/ ExtractFinish

(***************************************************************************)
(* QC metrics and report (qc/metrics.rs)                                   *)
(***************************************************************************)
\* the totals assigned to the public fields total_reads,
\* valid_barcode_reads, mapped_reads, assigned_reads
TotalsTried ==
  {<<0, 0, 0, 0>>, <<0, 1, 1, 1>>, <<4, 2, 2, 1>>, <<4, 1, 3, 0>>,
   <<4, 3, 1, 1>>, <<4, 2, 0, 1>>}

\* the values assigned to the per-cell means and medians beforehand
MeansTried == {Rat(0, 1), Rat(7, 1)}

\* the per-cell values tried
CellValues == {1, 200}

\* the per-cell slices tried
CellVectors == UNION {[1..n -> CellValues] : n \in 0..MaxCells}

\* the (unique_reads, total_reads) passed to calculate_saturation
SaturationArgs == {<<0, 0>>, <<7, 10>>, <<8, 10>>}

\* the f64 comparison a < b
RatLt(a, b) == a.num * b.den < b.num * a.den

\* the f64 comparison a < 0.3, for a a quotient or 1.0 - q with q a
\* quotient of integers below 2^50.  The f64 0.3 is 0.3 - e with
\* 0 < e < 2^-56.  For q in [0.5, 1] the f64 q is within 2^-54 of the
\* quotient and 1.0 - q is exact, while the quotient is 0.7 or differs from
\* it by at least 1 / (10 * den): 1.0 - q is below the f64 0.3 exactly when
\* 1 - num / den is below 3 / 10 (at num / den = 7 / 10 the f64 q is below
\* 0.7, and 1.0 - q is above 0.3).  For q below 0.5 the difference is at
\* least 0.5, for q above 1 it is negative.
LtThreeTenths(a) ==
  IF "right" \in DOMAIN a
    THEN 10 * (a.right.den - a.right.num) < 3 * a.right.den
  ELSE RatLt(a, Rat(3, 10))

\* QcMetrics::barcode_validity_rate
barcode_validity_rate(self) ==
  IF self.total_reads = 0 THEN Rat(0, 1)
  ELSE Rat(self.valid_barcode_reads, self.total_reads)

\* QcMetrics::mapping_rate
mapping_rate(self) ==
  IF self.total_reads = 0 THEN Rat(0, 1)
  ELSE Rat(self.mapped_reads, self.total_reads)

\* QcMetrics::assignment_rate
assignment_rate(self) ==
  IF self.mapped_reads = 0 THEN Rat(0, 1)
  ELSE Rat(self.assigned_reads, self.mapped_reads)

\* v with x put in before its first element that is greater
RECURSIVE InsertSorted(_, _)
InsertSorted(v, x) ==
  IF v = <<>> THEN <<x>>
  ELSE IF x < v[1] THEN <<x>> \o v
  ELSE <<v[1]>> \o InsertSorted(Tail(v), x)

\* sorted.sort(): the elements in ascending order
RECURSIVE sort(_)
sort(v) ==
  IF v = <<>> THEN <<>> ELSE InsertSorted(sort(Tail(v)), v[1])

\* sorted.iter().sum::<u64>()
RECURSIVE SumU64(_)
SumU64(v) == IF v = <<>> THEN 0 ELSE v[1] + SumU64(Tail(v))

\* sorted.iter().sum::<u64>() as f64 / sorted.len() as f64
MeanOf(v) == Rat(SumU64(sort(v)), Len(v))

\* (mutant of MedianOf) the lower median for a slice of even length
MedianOf_Lower(v) == Rat(sort(v)[((Len(v) - 1) \div 2) + 1], 1)

\* sorted[sorted.len() / 2] as f64
MedianOf(v) == Rat(sort(v)[(Len(v) \div 2) + 1], 1)

\* QcMetrics::update_from_cells
update_from_cells(self, reads_per_cell0, genes_per_cell0, umis_per_cell0) ==
  [self EXCEPT
     !.num_cells = Len(reads_per_cell0),
     !.mean_reads_per_cell =
        IF reads_per_cell0 # <<>> THEN MeanOf(reads_per_cell0) ELSE @,
     !.median_reads_per_cell =
        IF reads_per_cell0 # <<>> THEN MedianOf(reads_per_cell0) ELSE @,
     !.mean_genes_per_cell =
        IF genes_per_cell0 # <<>> THEN MeanOf(genes_per_cell0) ELSE @,
     !.median_genes_per_cell =
        IF genes_per_cell0 # <<>> THEN MedianOf(genes_per_cell0) ELSE @,
     !.mean_umi_per_cell =
        IF umis_per_cell0 # <<>> THEN MeanOf(umis_per_cell0) ELSE @,
     !.median_umi_per_cell =
        IF umis_per_cell0 # <<>> THEN MedianOf(umis_per_cell0) ELSE @]

\* QcMetrics::calculate_saturation
calculate_saturation(self, unique_reads, total) ==
  [self EXCEPT
     !.sequencing_saturation =
        IF total = 0 THEN Rat(0, 1)
        ELSE Minus(Rat(1, 1), Rat(unique_reads, total))]

\* (mutant of Pushed) the warnings pushed at the front
Pushed_Front(list, cond, warning) ==
  IF cond THEN <<warning>> \o list ELSE list

\* if cond { self.warnings.push(warning) }
Pushed(list, cond, warning) == IF cond THEN Append(list, warning) ELSE list

\* QcReport::generate_warnings: the warnings afterwards
generate_warnings(m, list) ==
  LET w1 == Pushed(list, RatLt(barcode_validity_rate(m), Rat(1, 2)),
                   "Low barcode validity rate (<50%)")
      w2 == Pushed(w1, RatLt(mapping_rate(m), Rat(1, 2)),
                   "Low mapping rate (<50%)")
      w3 == Pushed(w2, LtThreeTenths(m.sequencing_saturation),
                   "Low sequencing saturation (<30%)")
  IN  Pushed(w3, RatLt(m.median_genes_per_cell, Rat(200, 1)),
             "Low median genes per cell (<200)")

\* the public fields of the metrics assigned by the caller
SetMetrics ==
  /\ qstage = "new"
  /\ \E t \in TotalsTried, f \in MeansTried :
       metrics' = [metrics EXCEPT
                     !.total_reads = t[1], !.valid_barcode_reads = t[2],
                     !.mapped_reads = t[3], !.assigned_reads = t[4],
                     !.mean_reads_per_cell = f, !.median_reads_per_cell = f,
                     !.mean_genes_per_cell = f, !.median_genes_per_cell = f,
                     !.mean_umi_per_cell = f, !.median_umi_per_cell = f]
  /\ qstage' = "set"
  /\ UNCHANGED <<warnings, cell_args>>
  /\ UNCHANGED notQcVars

\* metrics.update_from_cells(reads_per_cell, genes_per_cell, umis_per_cell)
UpdateFromCells ==
  /\ qstage \in {"new", "set"}
  /\ \E r \in CellVectors, g \in CellVectors, u \in CellVectors :
       /\ metrics' = update_from_cells(metrics, r, g, u)
       /\ cell_args' = [reads |-> r, genes |-> g, umis |-> u]
  /\ qstage' = "updated"
  /\ UNCHANGED warnings
  /\ UNCHANGED notQcVars

\* metrics.calculate_saturation(unique_reads, total_reads)
CalculateSaturation ==
  /\ qstage \in {"new", "set", "updated"}
  /\ \E a \in SaturationArgs :
       metrics' = calculate_saturation(metrics, a[1], a[2])
  /\ qstage' = "saturated"
  /\ UNCHANGED <<warnings, cell_args>>
  /\ UNCHANGED notQcVars

\* report.add_warning(warning)
AddWarning ==
  /\ qstage # "warned"
  /\ warnings = <<>>
  /\ warnings' = <<"custom">>
  /\ UNCHANGED <<metrics, cell_args, qstage>>
  /\ UNCHANGED notQcVars

\* report.generate_warnings()
GenerateWarnings ==
  /\ qstage # "warned"
  /\ warnings' = generate_warnings(metrics, warnings)
  /\ qstage' = "warned"
  /\ UNCHANGED <<metrics, cell_args>>
  /\ UNCHANGED notQcVars

QcNext ==
  \/ SetMetrics \/ UpdateFromCells \/ CalculateSaturation \/ AddWarning
  \/ GenerateWarnings

vars ==
  <<matchVars, countVars, umiVars, wlVars, protoVars, pyVars, pairedVars,
    cliVars, qcVars>>

SpecMatch == Init /\ [][MatchNext]_vars

SpecCount == Init /\ [][CountNext]_vars

SpecUmi == Init /\ [][UmiNext]_vars

SpecWhitelist == Init /\ [][WlNext]_vars

SpecProtocol == Init /\ [][ProtoNext]_vars

SpecPy == Init /\ [][PyNext]_vars

SpecPaired == Init /\ [][PairedNextStep]_vars

SpecCli == Init /\ [][CliNext]_vars

SpecQc == Init /\ [][QcNext]_vars

(***************************************************************************)
(* Properties of the counter and the matrix                                *)
(***************************************************************************)
\* the elements of a sequence in order of first occurrence
FirstOccurrences(seq) ==
  LET firsts == Ascending({i \in DOMAIN seq :
                             \A j \in 1..(i - 1) : seq[j] # seq[i]})
  IN  [k \in DOMAIN firsts |-> seq[firsts[k]]]

CalledBarcodes == [i \in DOMAIN calls |-> calls[i].barcode]
CalledGenes == [i \in DOMAIN calls |-> calls[i].gene]

\* the (gene, barcode) pairs passed so far
CalledPairs == {<<calls[i].gene, calls[i].barcode>> : i \in DOMAIN calls}

\* the exact sum of the counts passed for (gene, bc) in the first n calls
RECURSIVE PassedFor(_, _, _)
PassedFor(gene, bc, n) ==
  IF n = 0 THEN Big(0)
  ELSE IF calls[n].gene = gene /\ calls[n].barcode = bc
    THEN BigAdd(PassedFor(gene, bc, n - 1), calls[n].count)
  ELSE PassedFor(gene, bc, n - 1)

\* the exact sum of the counts passed in the first n calls
RECURSIVE PassedInAll(_)
PassedInAll(n) ==
  IF n = 0 THEN Big(0) ELSE BigAdd(PassedInAll(n - 1), calls[n].count)

\* the exact sum of the first n elements of a vector of numbers
RECURSIVE SumOf(_, _)
SumOf(v, n) == IF n = 0 THEN Big(0) ELSE BigAdd(SumOf(v, n - 1), v[n])

\* the position of a label in a vector, 0-based
PositionIn(labels, label) == (CHOOSE i \in DOMAIN labels : labels[i] = label) - 1

\* the multiset of the elements of a sequence
Multiset(seq) ==
  [x \in Range(seq) |-> Cardinality({i \in DOMAIN seq : seq[i] = x})]

\* the (row, col) pairs of a matrix, entry by entry
Coordinates(m) == [i \in DOMAIN m.rows |-> <<m.rows[i], m.cols[i]>>]

\* the integrity invariants of a count matrix
Integrity(m) ==
  /\ Len(m.rows) = Len(m.cols) /\ Len(m.cols) = Len(m.values)
  /\ \A i \in DOMAIN m.rows : m.rows[i] < m.n_rows /\ m.cols[i] < m.n_cols
  /\ \A i \in DOMAIN m.values : BigLt(Big(0), m.values[i])
  /\ \A i, j \in DOMAIN m.rows :
       Coordinates(m)[i] = Coordinates(m)[j] => i = j

\* C5: after any calls and build(): rows, cols and values have one length,
\* the number of distinct (gene, barcode) pairs passed; no (row, col) pair
\* occurs twice; rows[i] < n_rows and cols[i] < n_cols; n_rows = |genes| =
\* the number of distinct genes passed, n_cols likewise for barcodes.
C5_BuiltShape ==
  origin.kind = "build" =>
    /\ Len(matrix.rows) = Cardinality(CalledPairs)
    /\ Len(matrix.cols) = Cardinality(CalledPairs)
    /\ Len(matrix.values) = Cardinality(CalledPairs)
    /\ \A i, j \in DOMAIN matrix.rows :
         Coordinates(matrix)[i] = Coordinates(matrix)[j] => i = j
    /\ \A i \in DOMAIN matrix.rows :
         matrix.rows[i] < matrix.n_rows /\ matrix.cols[i] < matrix.n_cols
    /\ matrix.n_rows = Len(matrix.genes)
    /\ matrix.n_rows = Cardinality(Range(CalledGenes))
    /\ matrix.n_cols = Len(matrix.barcodes)
    /\ matrix.n_cols = Cardinality(Range(CalledBarcodes))

\* a matrix built from three calls, two of them for one pair, on two genes
\* and one barcode
C5_Witness ==
  /\ origin.kind = "build"
  /\ Len(calls) = 3
  /\ Len(matrix.values) = 2
  /\ matrix.n_rows = 2
  /\ matrix.n_cols = 1

\* C6: every count in the accumulator, and every values[i] of the built
\* matrix, is strictly positive, whatever u32 counts add_count was given.
C6_CountsPositive ==
  /\ \A key \in DOMAIN counter.counts : BigLt(Big(0), counter.counts[key])
  /\ origin.kind = "build" =>
       \A i \in DOMAIN matrix.values : BigLt(Big(0), matrix.values[i])

\* C7: the label vectors are the distinct labels in order of first
\* occurrence, the index stored for a label is its position in its vector
\* (so it never changes), and build() emits the vectors in that order.
C7_LabelOrder ==
  /\ counter.barcodes = FirstOccurrences(CalledBarcodes)
  /\ counter.genes = FirstOccurrences(CalledGenes)
  /\ DOMAIN counter.barcode_index = Range(counter.barcodes)
  /\ DOMAIN counter.gene_index = Range(counter.genes)
  /\ \A bc \in DOMAIN counter.barcode_index :
       counter.barcode_index[bc] = PositionIn(counter.barcodes, bc)
  /\ \A gene \in DOMAIN counter.gene_index :
       counter.gene_index[gene] = PositionIn(counter.genes, gene)
  /\ origin.kind = "build" =>
       /\ matrix.barcodes = FirstOccurrences(CalledBarcodes)
       /\ matrix.genes = FirstOccurrences(CalledGenes)

\* the second labels came first, the first ones later, and the matrix was
\* built
C7_Witness ==
  /\ origin.kind = "build"
  /\ Len(calls) = 3
  /\ matrix.barcodes = <<CellLabels[2], CellLabels[1]>>
  /\ matrix.genes = <<GeneLabels[2], GeneLabels[1]>>
  /\ calls[3].barcode = CellLabels[2]

\* every pair's total fits in 32 bits
TotalsFit == \A p \in CalledPairs : FitsU32(PassedFor(p[1], p[2], Len(calls)))

\* C8: while the per-pair totals stay below 2^32, the built matrix has, for
\* every pair passed, get(row of gene, column of barcode) = the sum of the
\* counts passed for it; get = 0 at every other position; and the sum of
\* values is the sum of all counts passed.
C8_BuiltCounts ==
  (origin.kind = "build" /\ TotalsFit) =>
    /\ \A p \in CalledPairs :
         get(matrix, PositionIn(matrix.genes, p[1]),
             PositionIn(matrix.barcodes, p[2]))
           = PassedFor(p[1], p[2], Len(calls))
    /\ \A r \in 0..Len(GeneLabels), c \in 0..Len(CellLabels) :
         (~\E p \in CalledPairs :
             /\ r = PositionIn(matrix.genes, p[1])
             /\ c = PositionIn(matrix.barcodes, p[2]))
         => get(matrix, r, c) = Big(0)
    /\ SumOf(matrix.values, Len(matrix.values)) = PassedInAll(Len(calls))

\* a pair incremented twice beside a pair given u32::MAX at once, and a
\* position of the matrix that no call touched
C8_Witness ==
  /\ origin.kind = "build"
  /\ TotalsFit
  /\ \E p \in CalledPairs : PassedFor(p[1], p[2], Len(calls)) = Big(2)
  /\ \E p \in CalledPairs : PassedFor(p[1], p[2], Len(calls)) = U32Max
  /\ matrix.n_rows * matrix.n_cols > Len(matrix.values)

\* the dense data has one row per gene and one cell per barcode in each row
DenseShaped ==
  /\ origin.kind = "dense"
  /\ Len(origin.data) = Len(matrix.genes)
  /\ \A i \in DOMAIN origin.data : Len(origin.data[i]) = Len(matrix.barcodes)

\* C9: for a matrix from build(), or from from_dense with data of shape
\* genes x barcodes: counts_per_cell has length n_cols, counts_per_gene has
\* length n_rows, and both sum to the sum of values.
C9_Aggregation ==
  (origin.kind = "build" \/ DenseShaped) =>
    /\ ~counts_per_cell(matrix).panic
    /\ ~counts_per_gene(matrix).panic
    /\ Len(counts_per_cell(matrix).counts) = matrix.n_cols
    /\ Len(counts_per_gene(matrix).counts) = matrix.n_rows
    /\ SumOf(counts_per_cell(matrix).counts, matrix.n_cols)
         = SumOf(matrix.values, Len(matrix.values))
    /\ SumOf(counts_per_gene(matrix).counts, matrix.n_rows)
         = SumOf(matrix.values, Len(matrix.values))

\* a dense 2 x 2 matrix with a column whose total passes 32 bits
C9_Witness ==
  /\ DenseShaped
  /\ matrix.n_rows = 2 /\ matrix.n_cols = 2
  /\ Len(matrix.values) >= 3
  /\ \E c \in 1..matrix.n_cols : ~FitsU32(counts_per_cell(matrix).counts[c])

\* a built matrix with a row whose total passes 32 bits
C9_WitnessBuilt ==
  /\ origin.kind = "build"
  /\ \E r \in 1..matrix.n_rows : ~FitsU32(counts_per_gene(matrix).counts[r])

\* the entries of a matrix as (row, col, value) triples
Triples(m) == [i \in DOMAIN m.rows |-> <<m.rows[i], m.cols[i], m.values[i]>>]

\* C10: for a matrix satisfying the integrity invariants, the file written
\* by write_mtx is read back by the qc command without error, with the same
\* (n_rows, n_cols) and the same multiset of (row - 1, col - 1, value)
\* triples, also when there is no entry.
C10_MtxRoundTrip ==
  (parsed.done /\ Integrity(matrix)) =>
    /\ ~parsed.err
    /\ parsed.n_rows = matrix.n_rows
    /\ parsed.n_cols = matrix.n_cols
    /\ Multiset(parsed.entries) = Multiset(Triples(matrix))

\* a matrix of several entries, one of them u32::MAX, written and read back
C10_Witness ==
  /\ parsed.done
  /\ Integrity(matrix)
  /\ Len(matrix.values) >= 3
  /\ \E i \in DOMAIN matrix.values : matrix.values[i] = U32Max
  /\ Len(parsed.entries) = Len(matrix.values)

\* a matrix with labels and no entry, written and read back
C10_WitnessEmpty ==
  /\ parsed.done
  /\ Integrity(matrix)
  /\ matrix.values = <<>>
  /\ matrix.n_rows > 0 /\ matrix.n_cols > 0
  /\ parsed.n_rows = matrix.n_rows

(***************************************************************************)
(* Properties of the UMI deduplicator                                      *)
(***************************************************************************)
\* the call returned (it did not panic)
Returned(r) == r # NotCalled /\ ~r.panic

\* the sum of the input counts given for string s
StringTotal(s) ==
  LET Mine(u) == u.sequence = s
      mine == SelectSeq(umis, Mine)
  IN  SumOf([k \in DOMAIN mine |-> mine[k].count], Len(mine))

\* the sum of all input counts
InputTotal == SumOf([k \in DOMAIN umis |-> umis[k].count], Len(umis))

\* the sum of the members' counts of a group
MemberTotal(g) ==
  SumOf([k \in DOMAIN g.members |-> g.members[k].count], Len(g.members))

\* the strings of a group's members
MemberSequences(g) == {g.members[k].sequence : k \in DOMAIN g.members}

\* no u32 sum of the call passed u32::MAX: neither a string's summed count
\* nor the total over the strings of a returned group
NoOverflow(gs) ==
  /\ \A s \in SequencesOf(umis) : FitsU32(StringTotal(s))
  /\ \A k \in DOMAIN gs :
       LET strings == Ascending({i \in DOMAIN umis :
                        umis[i].sequence \in MemberSequences(gs[k])})
       IN  FitsU32(SumOf([j \in DOMAIN strings |-> umis[strings[j]].count],
                         Len(strings)))

Conserved(gs) ==
  /\ SumOf([k \in DOMAIN gs |-> gs[k].total_count], Len(gs)) = InputTotal
  /\ \A k \in DOMAIN gs : gs[k].total_count = MemberTotal(gs[k])

\* C11: absent u32 overflow, the groups returned by deduplicate and by
\* deduplicate_exact have total_counts that sum to the sum of the input
\* counts, and each group's total_count is the sum of its members' counts.
C11_Conservation ==
  /\ (Returned(groups) /\ NoOverflow(groups.groups))
       => Conserved(groups.groups)
  /\ (Returned(exact_groups) /\ NoOverflow(exact_groups.groups))
       => Conserved(exact_groups.groups)

\* deduplicate returned a group of two strings, one of them given twice in the
\* input, beside another group
C11_Witness ==
  /\ Returned(groups) /\ NoOverflow(groups.groups)
  /\ Len(umis) = 3
  /\ Len(groups.groups) = 2
  /\ \E k \in DOMAIN groups.groups :
       /\ Len(groups.groups[k].members) = 1
       /\ groups.groups[k].total_count = Big(3)

\* deduplicate_exact returned two groups, one of a string given twice
C11_WitnessExact ==
  /\ Returned(exact_groups) /\ NoOverflow(exact_groups.groups)
  /\ Len(umis) = 3
  /\ Len(exact_groups.groups) = 2
  /\ \E k \in DOMAIN exact_groups.groups :
       exact_groups.groups[k].total_count = Big(4)

\* the byte of a base
ByteOf(c) ==
  CASE c = "A" -> 65 [] c = "C" -> 67 [] c = "G" -> 71 [] c = "N" -> 78
    [] c = "T" -> 84

\* a is lexicographically smaller than b
LexLt(a, b) ==
  \/ /\ Len(a) < Len(b)
     /\ \A i \in DOMAIN a : a[i] = b[i]
  \/ \E i \in DOMAIN a \cap DOMAIN b :
       /\ ByteOf(a[i]) < ByteOf(b[i])
       /\ \A j \in 1..(i - 1) : a[j] = b[j]

\* C12: in every group returned by deduplicate, the representative is a
\* member with the greatest count of the group, and among the members with
\* the greatest count it is the lexicographically smallest.
C12_Representative ==
  Returned(groups) =>
    \A k \in DOMAIN groups.groups :
      LET g == groups.groups[k]
      IN  \E r \in DOMAIN g.members :
            /\ g.members[r].sequence = g.representative
            /\ \A m \in DOMAIN g.members :
                 /\ BigLeq(g.members[m].count, g.members[r].count)
                 /\ g.members[m].count = g.members[r].count
                      => ~LexLt(g.members[m].sequence, g.representative)

\* the strings a and b are joined by an edge of the graph the specification
\* describes: equal length and Hamming distance at most d
Edge(a, b, d) ==
  /\ a # b
  /\ Len(a) = Len(b)
  /\ BigLeq(Big(Cardinality({i \in DOMAIN a : a[i] # b[i]})), d)

\* the strings of S a chain of edges connects to one of `reached`
RECURSIVE ChainFrom(_, _, _)
ChainFrom(reached, S, d) ==
  LET more == {b \in S \ reached : \E a \in reached : Edge(a, b, d)}
  IN  IF more = {} THEN reached ELSE ChainFrom(reached \cup more, S, d)

\* the members of all groups, group after group
RECURSIVE AllMembers(_, _)
AllMembers(gs, n) ==
  IF n = 0 THEN <<>> ELSE AllMembers(gs, n - 1) \o gs[n].members

\* the groups are the connected components of the graph on the distinct input
\* strings, each string a member once with its summed count
ComponentsOf(gs, d) ==
  LET members == AllMembers(gs, Len(gs))
  IN  /\ {members[k].sequence : k \in DOMAIN members} = SequencesOf(umis)
      /\ \A j, k \in DOMAIN members :
           members[j].sequence = members[k].sequence => j = k
      /\ \A k \in DOMAIN members :
           members[k].count = StringTotal(members[k].sequence)
      /\ \A k \in DOMAIN gs :
           \A a \in MemberSequences(gs[k]) :
             MemberSequences(gs[k]) = ChainFrom({a}, SequencesOf(umis), d)
      /\ umis = <<>> => gs = <<>>

\* C13: absent u32 overflow, the groups returned by deduplicate with
\* threshold d are the connected components of the graph on the distinct
\* input strings whose edges join equal-length strings at Hamming distance
\* <= d; every string is a member of one group, once, with its summed count;
\* an empty input gives no group.
C13_Components ==
  (Returned(groups) /\ NoOverflow(groups.groups))
    => ComponentsOf(groups.groups, dedup_distance)

\* the groups of deduplicate_exact: one per distinct input string, the string
\* its representative and only member, the total the sum of its input counts
ExactGroups(gs) ==
  /\ {gs[k].representative : k \in DOMAIN gs} = SequencesOf(umis)
  /\ Len(gs) = Cardinality(SequencesOf(umis))
  /\ \A k \in DOMAIN gs :
       /\ Len(gs[k].members) = 1
       /\ gs[k].members[1].sequence = gs[k].representative
       /\ gs[k].members[1].count = gs[k].total_count
       /\ gs[k].total_count = StringTotal(gs[k].representative)

\* deduplicate with threshold 0 returns the groups deduplicate_exact returns
\* on the same input, whatever order either puts them in
SameAsExact ==
  (groups # NotCalled /\ dedup_distance = Big(0)) =>
    \A keys \in Orders(SequencesOf(umis)) :
      LET exact == deduplicate_exact(umis, keys, overflow_checks)
      IN  /\ exact.panic = groups.panic
          /\ ~exact.panic => Range(exact.groups) = Range(groups.groups)
                             /\ Len(exact.groups) = Len(groups.groups)

\* every string's input counts sum to at most u32::MAX
StringTotalsFit == \A s \in SequencesOf(umis) : FitsU32(StringTotal(s))

\* C14 (as stated): deduplicate_exact returns one group per distinct input
\* string, with that string as representative and only member and the sum of
\* its input counts as total_count; deduplicate with threshold 0 returns the
\* same set of groups.
C14_ExactAsStated ==
  /\ exact_groups # NotCalled
       => ~exact_groups.panic /\ ExactGroups(exact_groups.groups)
  /\ SameAsExact

\* C14 (amended): the same, for inputs in which the counts of each string
\* sum to at most u32::MAX.
C14_ExactGroups ==
  StringTotalsFit =>
    /\ exact_groups # NotCalled
         => ~exact_groups.panic /\ ExactGroups(exact_groups.groups)
    /\ (groups # NotCalled /\ dedup_distance = Big(0))
         => ~groups.panic /\ ExactGroups(groups.groups)
    /\ SameAsExact

\* deduplicate_exact returned two groups for three inputs, two of them the
\* same string
C14_Witness ==
  /\ Returned(exact_groups)
  /\ StringTotalsFit
  /\ Len(umis) = 3
  /\ Len(exact_groups.groups) = 2

\* deduplicate with threshold 0 returned two groups for three inputs with
\* strings one mismatch apart
C14_WitnessZero ==
  /\ Returned(groups)
  /\ dedup_distance = Big(0)
  /\ StringTotalsFit
  /\ Len(umis) = 3
  /\ Len(groups.groups) = 2
  /\ SequencesOf(umis) = {<<"A", "A">>, <<"A", "C">>}

(***************************************************************************)
(* Properties of whitelist construction                                    *)
(***************************************************************************)
\* the positions at which a line of the file starts
LineStarts ==
  {i \in 1..Len(wl_file) : i = 1 \/ wl_file[i - 1] = "\n"}

\* the line that starts at i, without its line feed
LineAt(i) ==
  LET stop == {k \in i..Len(wl_file) : wl_file[k] = "\n"}
  IN  SubSeq(wl_file, i,
             IF stop = {} THEN Len(wl_file)
             ELSE (CHOOSE k \in stop : \A j \in stop : k <= j) - 1)

\* the line without the blanks at its two ends
Unpadded(line) ==
  LET lead  == Cardinality({a \in 1..Len(line) :
                              \A k \in 1..a : line[k] = " "})
      trail == Cardinality({b \in 1..Len(line) :
                              \A k \in (Len(line) - b + 1)..Len(line) :
                                line[k] = " "})
  IN  IF lead = Len(line) THEN <<>>
      ELSE [j \in 1..(Len(line) - lead - trail) |-> line[lead + j]]

\* the trimmed text of the line that starts at i
TextAt(i) == Unpadded(LineAt(i))

\* the starts of the accepted lines: not blank, not starting with '#' once
\* trimmed
AcceptedStarts ==
  {i \in LineStarts : LET t == TextAt(i) IN t # <<>> /\ t[1] # "#"}

\* the accepted entries in file order
AcceptedFile ==
  LET starts == Ascending(AcceptedStarts)
  IN  [k \in DOMAIN starts |-> TextAt(starts[k])]

\* C15: when from_file succeeds, contains(bc) holds exactly for the trimmed
\* texts of the lines that are not blank and do not start with '#' (tried
\* for every such text and every string contained); len() is the number of
\* distinct such texts; a file with no accepted line gives len() = 0 and
\* barcode_len() = 0.
C15_FromFileMembership ==
  (loaded.ok /\ loaded.call = "from_file") =>
    LET accepted == Range(AcceptedFile)
    IN  /\ \A bc \in accepted \cup loaded.barcodes
                     \cup {LineAt(i) : i \in LineStarts} :
             contains(loaded, bc) <=> bc \in accepted
        /\ len(loaded) = Cardinality(accepted)
        /\ accepted = {} => len(loaded) = 0 /\ barcode_len(loaded) = 0

\* a file with an indented comment and a barcode given twice
C15_Witness ==
  /\ loaded.ok /\ loaded.call = "from_file"
  /\ len(loaded) = 1
  /\ Len(AcceptedFile) = 2
  /\ \E i \in LineStarts :
       /\ TextAt(i) # <<>> /\ TextAt(i)[1] = "#"
       /\ LineAt(i)[1] = " "

\* a file with a barcode given twice, once with blanks after it
C15_WitnessBlanks ==
  /\ loaded.ok /\ loaded.call = "from_file"
  /\ len(loaded) = 1
  /\ Len(AcceptedFile) = 2
  /\ \E i \in LineStarts : LineAt(i) # TextAt(i) /\ LineAt(i)[1] # " "

\* a file of comments and blank lines only
C15_WitnessEmpty ==
  /\ loaded.ok /\ loaded.call = "from_file"
  /\ wl_file # <<>>
  /\ \E i \in LineStarts : TextAt(i) # <<>>
  /\ len(loaded) = 0

\* the entries a constructor accepts, in order
AcceptedEntries ==
  IF loaded.call = "from_vec" THEN wl_vec ELSE AcceptedFile

\* the positions of the accepted entries whose length is not the first one's
Inconsistent ==
  LET entries == AcceptedEntries
  IN  {k \in DOMAIN entries : Len(entries[k]) # Len(entries[1])}

\* the file is plain text: its bytes are UTF-8
TextFile == Utf8Valid(wl_file)

\* C16: from_file on a text file, and from_vec, return a Barcode error
\* exactly when an accepted entry's length differs from the first's; the
\* error names the first entry's length as expected and the length of the
\* first entry that differs as observed, and no whitelist is produced; on
\* success every stored barcode has length barcode_len().
C16_LengthError ==
  (/\ loaded # NotLoaded /\ loaded.call \in {"from_file", "from_vec"}
   /\ TextFile) =>
    LET entries == AcceptedEntries
        differ  == Inconsistent
    IN  /\ (~loaded.ok /\ loaded.error = "Barcode") <=> differ # {}
        /\ differ # {} =>
             LET k == CHOOSE k \in differ : \A j \in differ : k <= j
             IN  loaded = [call |-> loaded.call] @@
                          BarcodeError(Len(entries[1]), Len(entries[k]))
        /\ differ = {} => loaded.ok
        /\ loaded.ok =>
             \A bc \in loaded.barcodes : Len(bc) = barcode_len(loaded)

\* from_file refused a file whose third accepted line is longer than the
\* first two
C16_Witness ==
  /\ loaded.call = "from_file"
  /\ ~loaded.ok /\ loaded.error = "Barcode"
  /\ Len(AcceptedFile) = 3
  /\ Inconsistent = {3}

\* from_vec refused a vector whose first entry is empty
C16_WitnessVec ==
  /\ loaded.call = "from_vec"
  /\ ~loaded.ok /\ loaded.error = "Barcode"
  /\ wl_vec[1] = <<>>

\* from_vec accepted three entries of one length
C16_WitnessOk ==
  /\ loaded.call = "from_vec"
  /\ loaded.ok
  /\ Len(wl_vec) = 3
  /\ len(loaded) = 2
  /\ barcode_len(loaded) = 2

(***************************************************************************)
(* Properties of the extraction                                            *)
(***************************************************************************)
\* the read length the claim requires of each preset it names
RequiredLen ==
  (TenX3Prime_v3 :> 28) @@ (TenX3Prime_v2 :> 26) @@ (TenX5Prime_v2 :> 26)

\* C17: for the presets 10x 3' v3, 10x 3' v2 and 10x 5' v2 and a read whose
\* qual is as long as its seq, extract_r1 returns a Protocol error exactly
\* when the read is shorter than 28, 26, 26 bases; otherwise it returns the
\* barcode seq[0..16], the umi seq[16..16+umi_len] (12, 10, 10 bases), the
\* same ranges of qual, and an empty cdna.
C17_ExtractR1 ==
  (/\ extracted # NotExtracted
   /\ protocol \in DOMAIN RequiredLen
   /\ Len(read.qual) = Len(read.seq)) =>
    LET need == RequiredLen[protocol]
    IN  /\ (~extracted.ok /\ extracted.error = "Protocol")
             <=> Len(read.seq) < need
        /\ Len(read.seq) >= need =>
             /\ extracted.ok
             /\ extracted.barcode = [i \in 1..16 |-> read.seq[i]]
             /\ extracted.umi = [i \in 1..(need - 16) |-> read.seq[16 + i]]
             /\ extracted.barcode_qual = [i \in 1..16 |-> read.qual[i]]
             /\ extracted.umi_qual =
                  [i \in 1..(need - 16) |-> read.qual[16 + i]]
             /\ extracted.cdna = <<>>
             /\ extracted.cdna_qual = <<>>

\* a read of exactly 28 bases under 10x 3' v3, its last base and the last
\* quality of its barcode marked
C17_Witness ==
  /\ protocol = TenX3Prime_v3
  /\ Len(read.seq) = 28 /\ Len(read.qual) = 28
  /\ extracted.ok
  /\ extracted.umi[12] = "C"
  /\ extracted.barcode_qual[16] = "#"

\* a read of 27 bases under 10x 3' v3 and one of 25 under 10x 5' v2 are
\* refused
C17_WitnessShort ==
  /\ \/ protocol = TenX3Prime_v3 /\ Len(read.seq) = 27
     \/ protocol = TenX5Prime_v2 /\ Len(read.seq) = 25
  /\ Len(read.qual) = Len(read.seq)
  /\ ~extracted.ok /\ extracted.error = "Protocol"

(***************************************************************************)
(* Properties of the axis-wise reductions                                  *)
(***************************************************************************)
\* the sum of the values of the entries whose key (row or column) is k
SumWhere(m, keys, k) ==
  LET at == Ascending({i \in DOMAIN keys : keys[i] = k})
  IN  SumOf([j \in DOMAIN at |-> m.values[at[j]]], Len(at))

\* the number of labels x below n for which some entry has key k and other
\* coordinate x
DistinctWhere(keys, others, k, n) ==
  Big(Cardinality({x \in 0..(n - 1) :
        \E i \in DOMAIN keys : keys[i] = k /\ others[i] = x}))

\* C18: for a matrix satisfying the integrity invariants, counts_per_cell()[c]
\* is the sum of the values of the entries of column c and counts_per_gene()
\* [r] that of row r; genes_per_cell()[c] is the number of distinct rows
\* among the entries of column c and cells_per_gene()[r] the number of
\* distinct columns among those of row r; the per-cell vectors have length
\* n_cols, the per-gene vectors length n_rows.
C18_Reductions ==
  (origin.kind # "none" /\ Integrity(matrix)) =>
    /\ ~counts_per_cell(matrix).panic /\ ~counts_per_gene(matrix).panic
    /\ ~genes_per_cell(matrix).panic /\ ~cells_per_gene(matrix).panic
    /\ DOMAIN counts_per_cell(matrix).counts = 1..matrix.n_cols
    /\ DOMAIN genes_per_cell(matrix).counts = 1..matrix.n_cols
    /\ DOMAIN counts_per_gene(matrix).counts = 1..matrix.n_rows
    /\ DOMAIN cells_per_gene(matrix).counts = 1..matrix.n_rows
    /\ \A c \in 1..matrix.n_cols :
         /\ counts_per_cell(matrix).counts[c]
              = SumWhere(matrix, matrix.cols, c - 1)
         /\ genes_per_cell(matrix).counts[c]
              = DistinctWhere(matrix.cols, matrix.rows, c - 1, matrix.n_rows)
    /\ \A r \in 1..matrix.n_rows :
         /\ counts_per_gene(matrix).counts[r]
              = SumWhere(matrix, matrix.rows, r - 1)
         /\ cells_per_gene(matrix).counts[r]
              = DistinctWhere(matrix.rows, matrix.cols, r - 1, matrix.n_cols)

\* a 2 x 2 matrix of three entries: one cell with two genes, one with one,
\* one gene in two cells, one in one
C18_Witness ==
  /\ origin.kind # "none" /\ Integrity(matrix)
  /\ matrix.n_rows = 2 /\ matrix.n_cols = 2
  /\ Len(matrix.values) = 3
  /\ Range(genes_per_cell(matrix).counts) = {Big(1), Big(2)}
  /\ Range(cells_per_gene(matrix).counts) = {Big(1), Big(2)}
  /\ genes_per_cell(matrix).counts # cells_per_gene(matrix).counts

\* a matrix with a label that has no entry
C18_WitnessZero ==
  /\ origin.kind # "none" /\ Integrity(matrix)
  /\ \E c \in 1..matrix.n_cols :
       /\ counts_per_cell(matrix).counts[c] = Big(0)
       /\ genes_per_cell(matrix).counts[c] = Big(0)
  /\ matrix.values # <<>>

(***************************************************************************)
(* The corrector's full scan and unequal lengths                           *)
(***************************************************************************)
\* the least Hamming distance from s to a whitelist entry, or -1 when no
\* entry has the length of s (the distance is then beyond every threshold)
MinDistance(s) ==
  LET ns == {n \in 0..Len(s) : AtDistance(s, n) # {}}
  IN  IF ns = {} THEN -1 ELSE CHOOSE n \in ns : \A m \in ns : n <= m

\* C19: with max_distance >= 2 and s not in the whitelist, let m be the
\* least Hamming distance from s to a whitelist entry: if m <= max_distance
\* and one entry alone is at distance m, the result is Corrected(s, w, m)
\* for that entry w, otherwise it is NoMatch(s); whether the answer comes
\* from the 1-mismatch index or from the full scan.
C19_MinimumUnique ==
  (/\ mstage = "match_barcode"
   /\ BigLeq(Big(2), max_distance)
   /\ query \notin whitelist) =>
    LET m == MinDistance(query)
    IN  IF /\ m >= 0
           /\ BigLeq(Big(m), max_distance)
           /\ Cardinality(AtDistance(query, m)) = 1
          THEN result = Corrected(query,
                                  CHOOSE w \in AtDistance(query, m) : TRUE,
                                  Big(m))
        ELSE result = NoMatch(query)

\* a group of deduplicate holds two strings of different lengths
MixedGroup ==
  /\ Returned(groups)
  /\ \E k \in DOMAIN groups.groups :
       \E a, b \in MemberSequences(groups.groups[k]) : Len(a) # Len(b)

\* C20: whatever max_distance is, 2^32 - 1 included, an observed barcode
\* whose length is not the whitelist's is never Corrected: the result is
\* NoMatch; and deduplicate never puts two UMIs of different lengths in one
\* group, whatever the threshold.
C20_UnequalLength ==
  /\ (/\ mstage = "match_barcode"
      /\ \A w \in whitelist : Len(w) # Len(query))
       => result = NoMatch(query)
  /\ ~MixedGroup

(***************************************************************************)
(* Properties of the output files                                          *)
(***************************************************************************)
\* the lines, each followed by a newline
RECURSIVE Terminated(_)
Terminated(lines) ==
  IF lines = <<>> THEN <<>>
  ELSE lines[1] \o <<"\n">> \o Terminated(Tail(lines))

\* the lines with a newline between consecutive ones and none at the end
RECURSIVE Separated(_)
Separated(lines) ==
  IF lines = <<>> THEN <<>>
  ELSE IF Len(lines) = 1 THEN lines[1]
  ELSE lines[1] \o <<"\n">> \o Separated(Tail(lines))

\* the three header lines of matrix.mtx
HeaderLines ==
  <<BannerLine, <<"%">>,
    Display(Big(matrix.n_rows)) \o <<" ">> \o Display(Big(matrix.n_cols))
      \o <<" ">> \o Display(Big(Len(matrix.values)))>>

\* one line per entry, in array order, indices 1-based
EntryLines ==
  [i \in DOMAIN matrix.values |->
     Display(Big(matrix.rows[i] + 1)) \o <<" ">>
       \o Display(Big(matrix.cols[i] + 1)) \o <<" ">>
       \o Display(matrix.values[i])]

\* C21: for every CountMatrix, write_mtx emits exactly the banner line, the
\* line '%', the line 'n_rows n_cols nnz' with nnz = |values|, then one line
\* 'rows[i]+1 cols[i]+1 values[i]' per entry in array order, the entries
\* separated by newlines with none after the last; write_barcodes emits the
\* barcodes in column-index order, one per newline-terminated line, and
\* write_genes emits 'gene<TAB>gene' per newline-terminated line in
\* row-index order.
C21_FileFormat ==
  file # <<>> =>
    /\ file = Terminated(HeaderLines) \o Separated(EntryLines)
    /\ barcodes_tsv =
         Terminated([i \in DOMAIN matrix.barcodes |-> Text(matrix.barcodes[i])])
    /\ genes_tsv =
         Terminated([i \in DOMAIN matrix.genes |->
                       Text(matrix.genes[i]) \o <<"\t">>
                         \o Text(matrix.genes[i])])

\* a matrix of two cells, two genes and at least two entries, one of them
\* u32::MAX, written to its three files; the last byte is no newline
C21_Witness ==
  /\ file # <<>>
  /\ Len(matrix.values) >= 2
  /\ \E i \in DOMAIN matrix.values : matrix.values[i] = U32Max
  /\ Len(matrix.barcodes) = 2 /\ Len(matrix.genes) = 2
  /\ file[Len(file)] # "\n"
  /\ barcodes_tsv # <<>> /\ genes_tsv # <<>>

\* a matrix without entries and without labels: the mtx file ends after the
\* size line, the two label files are empty
C21_WitnessEmpty ==
  /\ file # <<>>
  /\ matrix.values = <<>>
  /\ matrix.barcodes = <<>> /\ matrix.genes = <<>>
  /\ barcodes_tsv = <<>> /\ genes_tsv = <<>>
  /\ file[Len(file)] = "\n"

(***************************************************************************)
(* Properties of the Python counter                                        *)
(***************************************************************************)
\* the barcodes / genes of a sequence of calls, by first occurrence
SegBarcodes(seg) == FirstOccurrences([i \in DOMAIN seg |-> seg[i].barcode])
SegGenes(seg) == FirstOccurrences([i \in DOMAIN seg |-> seg[i].gene])

\* the (gene, barcode) pairs of a sequence of calls
SegPairs(seg) == {<<seg[i].gene, seg[i].barcode>> : i \in DOMAIN seg}

\* the sum of the counts passed for (gene, bc) in the first n calls of seg
RECURSIVE SegTotal(_, _, _, _)
SegTotal(seg, gene, bc, n) ==
  IF n = 0 THEN Big(0)
  ELSE IF seg[n].gene = gene /\ seg[n].barcode = bc
    THEN BigAdd(SegTotal(seg, gene, bc, n - 1), seg[n].count)
  ELSE SegTotal(seg, gene, bc, n - 1)

\* m holds the observations of seg and nothing else, its indices assigned
\* from 0 in order of first occurrence within seg
HoldsExactly(m, seg) ==
  /\ m.barcodes = SegBarcodes(seg)
  /\ m.genes = SegGenes(seg)
  /\ m.n_rows = Len(m.genes) /\ m.n_cols = Len(m.barcodes)
  /\ Len(m.values) = Cardinality(SegPairs(seg))
  /\ Range(Triples(m)) =
       {<<PositionIn(m.genes, pr[1]), PositionIn(m.barcodes, pr[2]),
          SegTotal(seg, pr[1], pr[2], Len(seg))>> : pr \in SegPairs(seg)}

\* the counter holds the labels of the calls made since the last build,
\* indexed from 0; none when no call was made since
CounterRestarted ==
  /\ py_calls = <<>> => num_cells(py_inner) = 0 /\ num_genes(py_inner) = 0
  /\ py_inner.barcodes = SegBarcodes(py_calls)
  /\ py_inner.genes = SegGenes(py_calls)
  /\ \A bc \in DOMAIN py_inner.barcode_index :
       py_inner.barcode_index[bc] = PositionIn(py_inner.barcodes, bc)
  /\ \A gene \in DOMAIN py_inner.gene_index :
       py_inner.gene_index[gene] = PositionIn(py_inner.genes, gene)
  /\ DOMAIN py_inner.counts =
       {<<PositionIn(py_inner.genes, pr[1]),
          PositionIn(py_inner.barcodes, pr[2])>> : pr \in SegPairs(py_calls)}

\* every matrix handed out stays as it is
HandedOutKept ==
  /\ Len(py_built') >= Len(py_built)
  /\ \A k \in DOMAIN py_built : py_built'[k] = py_built[k]

\* C22: a matrix handed out by build() is never changed by a later operation
\* on the builder.  In the Python binding, after build() the counter is empty
\* (num_cells() = num_genes() = 0), later add_count / increment calls assign
\* indices starting again from 0, and a second build() returns a matrix
\* containing only the observations made after the first build, the first
\* matrix unchanged.
C22_OneShot ==
  /\ [](CounterRestarted
        /\ \A k \in DOMAIN py_built : HoldsExactly(py_built[k], py_observed[k]))
  /\ [][HandedOutKept]_vars

\* two builds, each after calls of its own; the second matrix starts with
\* the label the first one has at index 1, and differs from the first
C22_Witness ==
  /\ Len(py_built) = 2
  /\ py_observed[1] # <<>> /\ py_observed[2] # <<>>
  /\ Len(py_built[1].barcodes) = 2
  /\ py_built[2].barcodes = <<py_built[1].barcodes[2]>>
  /\ py_built[2].values # <<>>

(***************************************************************************)
(* Properties of the paired parser                                         *)
(***************************************************************************)
\* neither reader yields an error
NoReaderError ==
  /\ \A i \in DOMAIN r1_reader : r1_reader[i].ok
  /\ \A i \in DOMAIN r2_reader : r2_reader[i].ok

\* the smaller of the two numbers of records
MinRecords ==
  IF Len(r1_reader) <= Len(r2_reader) THEN Len(r1_reader) ELSE Len(r2_reader)

\* the k-th record of a reader, as a FastqRecord
RecordAt(reader, k) ==
  [id |-> reader[k].id, seq |-> reader[k].seq, qual |-> reader[k].qual]

\* the k-th item of a reader is an error
ErrorAt(reader, k) == k \in DOMAIN reader /\ ~reader[k].ok

\* C23: when neither stream errors, the k-th item is the pair (k-th R1
\* record, k-th R2 record) for k up to min(n1, n2); if n1 = n2 the iteration
\* then ends with None; if n1 # n2 the item after the last complete pair is a
\* FastqParse error 'Paired FASTQ files have different lengths'; no pair
\* with a missing mate is ever yielded; an error from either stream is
\* yielded as an error.
C23_Lockstep ==
  /\ NoReaderError =>
       \A k \in DOMAIN yielded :
         /\ k <= MinRecords =>
              yielded[k] = [kind |-> "Ok", r1 |-> RecordAt(r1_reader, k),
                            r2 |-> RecordAt(r2_reader, k)]
         /\ (k = MinRecords + 1 /\ Len(r1_reader) = Len(r2_reader)) =>
              yielded[k] = [kind |-> "None"]
         /\ (k = MinRecords + 1 /\ Len(r1_reader) # Len(r2_reader)) =>
              yielded[k] =
                [kind |-> "Err", error |-> "FastqParse",
                 message |-> "Paired FASTQ files have different lengths"]
  /\ \A k \in DOMAIN yielded :
       /\ yielded[k].kind = "Ok" =>
            /\ k \in DOMAIN r1_reader /\ k \in DOMAIN r2_reader
            /\ r1_reader[k].ok /\ r2_reader[k].ok
            /\ yielded[k].r1.id = <<"R1", k>> /\ yielded[k].r2.id = <<"R2", k>>
       /\ (ErrorAt(r1_reader, k) \/ ErrorAt(r2_reader, k)) =>
            /\ yielded[k].kind = "Err"
            /\ yielded[k].message[2] =
                 IF ErrorAt(r1_reader, k) THEN <<"R1", k>> ELSE <<"R2", k>>

\* inputs of two and three records without errors, iterated past the end:
\* two pairs, then the length error
C23_Witness ==
  /\ NoReaderError
  /\ Len(r1_reader) = 2 /\ Len(r2_reader) = 3
  /\ Len(yielded) = 3
  /\ yielded[2].kind = "Ok"
  /\ yielded[3].kind = "Err"

\* inputs of equal length without errors, iterated to None
C23_WitnessEnd ==
  /\ NoReaderError
  /\ Len(r1_reader) = 2 /\ Len(r2_reader) = 2
  /\ Len(yielded) = 3
  /\ yielded[3].kind = "None"

\* the second input fails at its second item while the first has one record
\* only: the error of the second input is yielded
C23_WitnessError ==
  /\ Len(r1_reader) = 1 /\ r1_reader[1].ok
  /\ ErrorAt(r2_reader, 2)
  /\ Len(yielded) = 2
  /\ yielded[2].kind = "Err" /\ yielded[2].message[2] = <<"R2", 2>>

(***************************************************************************)
(* Properties of the count command                                         *)
(***************************************************************************)
\* the record is mapped, of sufficient mapping quality, with a CB tag and a
\* GN or GX tag
Qualifies(rec, min_mapq) ==
  /\ rec.is_mapped
  /\ rec.mapq >= min_mapq
  /\ rec.cell_barcode.some
  /\ rec.gene_name.some \/ rec.gene_id.some

\* GN when present, GX otherwise
GeneUsed(rec) ==
  IF rec.gene_name.some THEN rec.gene_name.value ELSE rec.gene_id.value

\* the count a counter holds for (barcode, gene), 0 when it holds none
CountOf(c, barcode, gene) ==
  IF barcode \in Range(c.barcodes) /\ gene \in Range(c.genes)
       /\ <<PositionIn(c.genes, gene), PositionIn(c.barcodes, barcode)>>
            \in DOMAIN c.counts
    THEN c.counts[<<PositionIn(c.genes, gene),
                    PositionIn(c.barcodes, barcode)>>]
    ELSE Big(0)

\* the sum of the counts a counter holds for the pairs of labels in S
RECURSIVE CountOver(_, _)
CountOver(c, S) ==
  IF S = {} THEN Big(0)
  ELSE LET pr == CHOOSE x \in S : TRUE
       IN  BigAdd(CountOf(c, pr[1], pr[2]), CountOver(c, S \ {pr}))

\* all pairs of labels
LabelPairs == Range(CellLabels) \X Range(GeneLabels)

\* the loop of the count command has just taken a record
CountTook ==
  cmd = "count" /\ pulled' = pulled + 1 /\ record'.kind = "Ok"

\* what the record taken does to the counter and the two totals
CountStep ==
  CountTook =>
    LET rec == record'.record
    IN  /\ total_reads' = total_reads + 1
        /\ IF Qualifies(rec, cmd_args.min_mapq)
             THEN /\ assigned_reads' = assigned_reads + 1
                  /\ \A pr \in LabelPairs :
                       CountOf(cmd_counter', pr[1], pr[2]) =
                         IF pr = <<rec.cell_barcode.value, GeneUsed(rec)>>
                           THEN BigAdd(CountOf(cmd_counter, pr[1], pr[2]),
                                       Big(1))
                           ELSE CountOf(cmd_counter, pr[1], pr[2])
             ELSE /\ assigned_reads' = assigned_reads
                  /\ cmd_counter' = cmd_counter

\* the loop ended with the end of the stream and the matrix was built
CountFinished ==
  cmd = "count" /\ cmd_exit # Running /\ record.kind # "Err"

\* C28: in the count command's record loop, a BAM record contributes exactly
\* one increment if and only if it is mapped, its mapq >= min_mapq, it has a
\* CB tag and a GN or GX tag; the gene label used is GN when present and GX
\* otherwise; every other record changes only total_reads.  After any prefix
\* of the stream assigned_reads <= total_reads, and at the end the sum of
\* the built matrix's values equals assigned_reads.
C28_CountLoop ==
  /\ [][CountStep]_vars
  /\ [](cmd = "count" =>
          /\ assigned_reads <= total_reads
          /\ CountOver(cmd_counter, LabelPairs) = Big(assigned_reads)
          /\ CountFinished =>
               SumOf(cmd_matrix.values, Len(cmd_matrix.values))
                 = Big(assigned_reads))

\* three records taken: one counted under its GX tag for want of a GN tag,
\* one with all tags but a mapping quality below min_mapq, one counted under
\* GN; the matrix built holds two counts
C28_Witness ==
  /\ CountFinished
  /\ total_reads = 3 /\ assigned_reads = 2
  /\ cmd_args.min_mapq = 30
  /\ record.record.mapq = 29 /\ record.record.is_mapped
  /\ Labelled(record.record).some
  /\ cmd_counter.genes = <<GeneLabels[2], GeneLabels[1]>>
  /\ Len(cmd_matrix.values) = 2

(***************************************************************************)
(* Properties of the record loops                                          *)
(***************************************************************************)
\* the item last taken from the stream is an error
StreamFailed == cmd # "none" /\ record.kind = "Err"

\* C24: in the count and extract record loops, when the record stream yields
\* an I/O or format error as its k-th item, run returns that error
\* immediately: no further item is pulled from the stream, the failing
\* record is not retried, and in the count command none of matrix.mtx,
\* barcodes.tsv, genes.tsv is written.
C24_ErrorPropagation ==
  /\ [](StreamFailed =>
          /\ cmd_exit = [kind |-> "Err", error |-> record]
          /\ total_reads = pulled - 1
          /\ outputs.mtx = NotWritten
          /\ outputs.barcodes = NotWritten
          /\ outputs.genes = NotWritten)
  /\ [][StreamFailed =>
          UNCHANGED <<pulled, record, total_reads, assigned_reads,
                      cmd_counter, cmd_matrix, outputs, valid_barcode,
                      corrected_barcode, cmd_exit>>]_vars

\* the count command fails on its third item, two records counted before
C24_Witness ==
  /\ cmd = "count" /\ StreamFailed
  /\ pulled = 3 /\ assigned_reads = 2
  /\ cmd_exit.kind = "Err" /\ cmd_exit.error.error = "BamParse"

\* the extract command fails on its second item
C24_WitnessExtract ==
  /\ cmd = "extract" /\ StreamFailed
  /\ pulled = 2 /\ valid_barcode = 1
  /\ cmd_exit.kind = "Err" /\ cmd_exit.error.error = "FastqParse"

(***************************************************************************)
(* Properties of the extract command                                       *)
(***************************************************************************)
\* the protocol of the running extract command
CmdStructure == ProtocolNamed(cmd_args.protocol).read_structure

\* the read is too short for the barcode and the UMI
TooShort(rec) ==
  Len(rec.seq) <
    CmdStructure.barcode_start + CmdStructure.barcode_len
      + CmdStructure.umi_len

\* the sum of the Phred scores of the quality bytes at positions S
RECURSIVE PhredSum(_, _)
PhredSum(qual, S) ==
  IF S = {} THEN 0
  ELSE LET i == CHOOSE x \in S : TRUE
       IN  (ByteValue(qual[i]) - 33) + PhredSum(qual, S \ {i})

\* the positions of the barcode in the read, 1-based
BarcodeRegion ==
  (CmdStructure.barcode_start + 1)
    ..(CmdStructure.barcode_start + CmdStructure.barcode_len)

\* the mean Phred of the barcode region is below the threshold
LowQuality(rec) ==
  PhredSum(rec.qual, BarcodeRegion)
    < cmd_args.min_barcode_qual * CmdStructure.barcode_len

\* the results the lookup of the read's barcode can have
Lookups(rec) ==
  {match_barcode(cmd_corrector.whitelist, wl, cmd_corrector.max_distance,
                 cmd_corrector.mismatch_index,
                 from_utf8_lossy([i \in 1..CmdStructure.barcode_len |->
                                    rec.seq[CmdStructure.barcode_start + i]]))
     : wl \in Orders(cmd_corrector.whitelist)}

\* the loop of the extract command has just taken a record
ExtractTook ==
  cmd = "extract" /\ pulled' = pulled + 1 /\ record'.kind = "Ok"

\* what the record taken does to the three totals
ExtractStep ==
  ExtractTook =>
    LET rec == record'.record
    IN  /\ total_reads' = total_reads + 1
        /\ cmd_exit' = Running
        /\ IF TooShort(rec) \/ LowQuality(rec)
             THEN /\ valid_barcode' = valid_barcode
                  /\ corrected_barcode' = corrected_barcode
             ELSE \E m \in Lookups(rec) :
                    /\ valid_barcode' =
                         IF m.kind \in {"Exact", "Corrected"}
                           THEN valid_barcode + 1 ELSE valid_barcode
                    /\ corrected_barcode' =
                         IF m.kind = "Corrected"
                           THEN corrected_barcode + 1 ELSE corrected_barcode

\* C25: in the extract loop, a record whose R1 extraction fails (read too
\* short), whose barcode-region mean Phred is below the threshold, or whose
\* barcode lookup is NoMatch is not an error: it is counted in total_reads,
\* leaves valid_barcode and corrected_barcode unchanged, and processing
\* continues with the next record.  After any prefix of the stream,
\* corrected_barcode <= valid_barcode <= total_reads, total_reads equals the
\* number of records consumed, valid_barcode counts exactly the Exact and
\* Corrected results and corrected_barcode exactly the Corrected ones.
C25_ExtractLoop ==
  /\ [][ExtractStep]_vars
  /\ [](cmd = "extract" =>
          /\ corrected_barcode <= valid_barcode
          /\ valid_barcode <= total_reads
          /\ total_reads = IF record.kind = "Err" THEN pulled - 1 ELSE pulled
          /\ total_reads = outcomes["short"] + outcomes["lowqual"]
                             + outcomes["NoMatch"] + outcomes["Exact"]
                             + outcomes["Corrected"]
          /\ valid_barcode = outcomes["Exact"] + outcomes["Corrected"]
          /\ corrected_barcode = outcomes["Corrected"])

\* a read of low barcode quality, then a read without match, then a read
\* corrected: three reads counted, one valid and corrected
C25_Witness ==
  /\ cmd = "extract"
  /\ total_reads = 3
  /\ outcomes["lowqual"] = 1 /\ outcomes["NoMatch"] = 1
  /\ outcomes["Corrected"] = 1
  /\ record.kind = "Ok" /\ ~TooShort(record.record)
  /\ ~LowQuality(record.record)
  /\ \E m \in Lookups(record.record) : m.kind = "Corrected"
  /\ valid_barcode = 1 /\ corrected_barcode = 1

\* a read too short for the protocol between two reads matched exactly
C25_WitnessShort ==
  /\ cmd = "extract"
  /\ total_reads = 3
  /\ outcomes["short"] = 1 /\ outcomes["Exact"] = 2
  /\ record.kind = "Ok" /\ ~TooShort(record.record)
  /\ valid_barcode = 2 /\ corrected_barcode = 0

(***************************************************************************)
(* C26: rates and warnings of the QC report                                *)
(***************************************************************************)
\* rate is 0 when den is 0 and num / den otherwise
IsRatio(rate, num, den) ==
  /\ rate.den > 0
  /\ IF den = 0 THEN rate.num = 0 ELSE rate.num * den = num * rate.den

\* the three rates of the metrics are the ratios of their totals
RatesExact ==
  /\ IsRatio(barcode_validity_rate(metrics),
             metrics.valid_barcode_reads, metrics.total_reads)
  /\ IsRatio(mapping_rate(metrics),
             metrics.mapped_reads, metrics.total_reads)
  /\ IsRatio(assignment_rate(metrics),
             metrics.assigned_reads, metrics.mapped_reads)

LowValidity ==
  metrics.total_reads = 0
    \/ 2 * metrics.valid_barcode_reads < metrics.total_reads

LowMapping ==
  metrics.total_reads = 0 \/ 2 * metrics.mapped_reads < metrics.total_reads

\* the saturation stored is below 0.3: it is a quotient below 3 / 10, or
\* 1.0 - q for a quotient q above 7 / 10
LowSaturation ==
  LET s == metrics.sequencing_saturation
  IN  IF "right" \in DOMAIN s THEN 7 * s.right.den < 10 * s.right.num
      ELSE 10 * s.num < 3 * s.den

LowMedianGenes ==
  metrics.median_genes_per_cell.num
    < 200 * metrics.median_genes_per_cell.den

\* the warnings due for the metrics, in the order of the report
WarningsDue ==
  (IF LowValidity THEN <<"Low barcode validity rate (<50%)">> ELSE <<>>)
    \o (IF LowMapping THEN <<"Low mapping rate (<50%)">> ELSE <<>>)
    \o (IF LowSaturation THEN <<"Low sequencing saturation (<30%)">>
        ELSE <<>>)
    \o (IF LowMedianGenes THEN <<"Low median genes per cell (<200)">>
        ELSE <<>>)

\* a step of generate_warnings appends exactly the warnings due
WarningsStep ==
  (qstage # "warned" /\ qstage' = "warned")
    => warnings' = warnings \o WarningsDue

\* a report of default totals got the first three warnings
DefaultWarned ==
  (qstage = "warned" /\ metrics.total_reads = 0
     /\ metrics.sequencing_saturation = Rat(0, 1))
    => \E k \in 0..1 :
         /\ Len(warnings) >= k + 3
         /\ warnings[k + 1] = "Low barcode validity rate (<50%)"
         /\ warnings[k + 2] = "Low mapping rate (<50%)"
         /\ warnings[k + 3] = "Low sequencing saturation (<30%)"

\* C26: each rate is 0 when its denominator is 0 and the ratio of its
\* totals otherwise; generate_warnings appends, in this order, the validity
\* warning iff total_reads = 0 or 2 * valid < total, the mapping warning iff
\* total_reads = 0 or 2 * mapped < total, the saturation warning iff
\* sequencing_saturation < 0.3 and the median-genes warning iff
\* median_genes_per_cell < 200, and nothing else; a report of default totals
\* receives the first three.
C26_RatesAndWarnings ==
  [](RatesExact /\ DefaultWarned) /\ [][WarningsStep]_vars

\* warnings generated for metrics that are low in validity and median genes
\* only, after a warning of the caller
C26_Witness ==
  /\ qstage = "warned"
  /\ metrics.total_reads > 0
  /\ LowValidity /\ ~LowMapping /\ ~LowSaturation /\ LowMedianGenes
  /\ warnings = <<"custom", "Low barcode validity rate (<50%)",
                  "Low median genes per cell (<200)">>

\* warnings generated for a report whose totals were never set
C26_WitnessDefault ==
  /\ qstage = "warned"
  /\ metrics.total_reads = 0 /\ metrics.mapped_reads = 0
  /\ metrics.num_cells = 2
  /\ metrics.median_genes_per_cell = Rat(200, 1)
  /\ warnings = <<"Low barcode validity rate (<50%)",
                  "Low mapping rate (<50%)",
                  "Low sequencing saturation (<30%)">>

\* a nonzero assignment rate while no read is in total_reads
C26_WitnessAssignment ==
  /\ metrics.total_reads = 0
  /\ metrics.mapped_reads > 0
  /\ assignment_rate(metrics).num > 0

(***************************************************************************)
(* C27: update_from_cells                                                  *)
(***************************************************************************)
\* x is the element at index floor(n/2), counted from 0, of v sorted
\* ascending
IsUpperMedian(x, v) ==
  /\ Cardinality({i \in 1..Len(v) : v[i] < x}) <= Len(v) \div 2
  /\ Len(v) \div 2 < Cardinality({i \in 1..Len(v) : v[i] <= x})

\* the median field after the call for the slice v and the field before
MedianSet(after, before, v) ==
  IF v # <<>> THEN after.den = 1 /\ IsUpperMedian(after.num, v)
  ELSE after = before

\* the mean field is left alone for an empty slice
MeanKept(after, before, v) == v = <<>> => after = before

\* a step of update_from_cells
UpdateStep ==
  (qstage # "updated" /\ qstage' = "updated")
    => /\ metrics'.num_cells = Len(cell_args'.reads)
       /\ MedianSet(metrics'.median_reads_per_cell,
                    metrics.median_reads_per_cell, cell_args'.reads)
       /\ MedianSet(metrics'.median_genes_per_cell,
                    metrics.median_genes_per_cell, cell_args'.genes)
       /\ MedianSet(metrics'.median_umi_per_cell,
                    metrics.median_umi_per_cell, cell_args'.umis)
       /\ MeanKept(metrics'.mean_reads_per_cell,
                   metrics.mean_reads_per_cell, cell_args'.reads)
       /\ MeanKept(metrics'.mean_genes_per_cell,
                   metrics.mean_genes_per_cell, cell_args'.genes)
       /\ MeanKept(metrics'.mean_umi_per_cell,
                   metrics.mean_umi_per_cell, cell_args'.umis)
       /\ metrics'.total_reads = metrics.total_reads
       /\ metrics'.valid_barcode_reads = metrics.valid_barcode_reads
       /\ metrics'.mapped_reads = metrics.mapped_reads
       /\ metrics'.assigned_reads = metrics.assigned_reads

\* C27: update_from_cells sets num_cells to the length of reads_per_cell;
\* for a non-empty slice of length n the median becomes the element at index
\* floor(n/2) of the slice sorted ascending; for an empty slice the mean and
\* the median keep their values; the read totals keep their values.
C27_UpdateFromCells == [][UpdateStep]_vars

\* an update with an unsorted slice of even length, an empty slice and a
\* slice of one element, on metrics whose fields had been set
C27_Witness ==
  /\ qstage = "updated"
  /\ cell_args = [reads |-> <<200, 1>>, genes |-> <<>>, umis |-> <<200>>]
  /\ metrics.num_cells = 2
  /\ metrics.median_reads_per_cell = Rat(200, 1)
  /\ metrics.mean_genes_per_cell = Rat(7, 1)
  /\ metrics.median_genes_per_cell = Rat(7, 1)
  /\ metrics.total_reads = 4

(***************************************************************************)
(* C29: extraction under any read structure                                *)
(***************************************************************************)
\* the positions start..start+n-1, counted from 0, lie within the read and
\* part is the read's content there
TakenWithin(part, v, start, n) ==
  /\ Len(part) = n
  /\ start + n <= Len(v)
  /\ \A i \in 1..n : part[i] = v[start + i]

\* C29: for every read structure, custom ones included, and every seq and
\* qual of equal length, extract_r1 returns a Protocol error or components
\* whose barcode has barcode_len bases and whose umi has umi_len bases taken
\* from within the read; no slice reaches a position at or beyond len(seq).
C29_NoSliceAbort ==
  (extracted # NotExtracted /\ Len(read.qual) = Len(read.seq)) =>
    LET rs == protocol.read_structure
    IN  \/ ~extracted.ok /\ extracted.error = "Protocol"
        \/ /\ extracted.ok
           /\ TakenWithin(extracted.barcode, read.seq,
                          rs.barcode_start, rs.barcode_len)
           /\ TakenWithin(extracted.umi, read.seq, rs.umi_start, rs.umi_len)
           /\ TakenWithin(extracted.barcode_qual, read.qual,
                          rs.barcode_start, rs.barcode_len)
           /\ TakenWithin(extracted.umi_qual, read.qual,
                          rs.umi_start, rs.umi_len)

(***************************************************************************)
(* C30: the iteration order of the whitelist                               *)
(***************************************************************************)
\* one iteration order of the whitelist W, the same for every state
CanonicalOrder(W) == CHOOSE wl \in Orders(W) : TRUE

\* the result at hand, which the model reaches under every order in which
\* the index can be built and every order in which the whitelist can be
\* scanned, is the one a corrector of the same whitelist and max_distance
\* built and scanned under the canonical order returns for the query; so
\* the results under any two orders are the same
OrderIndependent ==
  mstage = "match_barcode" =>
    LET wl == CanonicalOrder(whitelist)
        index == IF BigLeq(Big(1), max_distance)
                   THEN build_mismatch_index(wl)
                 ELSE EmptyIndex
    IN  match_barcode(whitelist, wl, max_distance, index, query) = result

\* a call of match_barcode leaves the corrector as it was
CorrectorKept ==
  (mstage = "corrector" /\ mstage' = "match_barcode")
    => UNCHANGED <<whitelist, max_distance, mismatch_index>>

\* C30: for a fixed whitelist content, max_distance and observed barcode,
\* correctors built and scanned under any two iteration orders of the
\* whitelist return the same BarcodeMatch (variant, canonical barcode and
\* distance), and match_barcode leaves the whitelist and the mismatch index
\* unchanged, so the calls for a batch give the same results in any order
\* or in parallel.
C30_OrderIndependent == []OrderIndependent /\ [][CorrectorKept]_vars

\* a correction at distance 2 found by the scan of a whitelist of several
\* entries
C30_Witness ==
  /\ mstage = "match_barcode"
  /\ Cardinality(whitelist) >= 2
  /\ result.kind = "Corrected"
  /\ result.distance = Big(2)

\* a tie at distance 1: two candidates under the query's key, in an order
\* that depends on the iteration, and no match
C30_WitnessTie ==
  /\ mstage = "match_barcode"
  /\ query \in DOMAIN mismatch_index
  /\ Len(mismatch_index[query]) = 2
  /\ \E built \in Orders(whitelist) :
       build_mismatch_index(built)[query] # mismatch_index[query]
  /\ result = NoMatch(query)

====
